---------------------------- MODULE Spec2Model ----------------------------
(***************************************************************************)
(* A model of PriestOfYuleSacrifice.py: the ChallengeRunner loop, the      *)
(* final password gate, the password game (evaluate_rules and the staged   *)
(* disclosure walk of is_completed), the reindeer-image challenge with its *)
(* classifier call gemini_eyeballs, the intro challenge, the typing        *)
(* challenge with its timed input, the math and PDF challenges and the     *)
(* altar purge _clear_altar_contents.                                      *)
(*                                                                         *)
(* A Python str is a sequence of one-character strings, so that len,       *)
(* lower, rstrip, slicing, re.search and re.match are computed as Python   *)
(* computes them.  The altar is a function from file names to files; the   *)
(* player, a process outside the program, writes and removes files between *)
(* any two steps of the program.                                           *)
(***************************************************************************)
EXTENDS Integers, Sequences, FiniteSets, TLC

(***************************************************************************)
(* Bounds of the model.                                                    *)
(***************************************************************************)
\* number of writes and removals the player performs in one run
MaxWrites == 2
\* length of the longest challenge list handed to ChallengeRunner
MaxChallenges == 2
\* the count of remote classifier calls saturates here
MaxRemoteCalls == 6

(***************************************************************************)
(* Characters and Python string operations.                                *)
(***************************************************************************)
UpperCase == <<"A", "B", "C", "D", "E", "F", "G", "H", "I", "J", "K", "L", "M",
               "N", "O", "P", "Q", "R", "S", "T", "U", "V", "W", "X", "Y", "Z">>

LowerCase == <<"a", "b", "c", "d", "e", "f", "g", "h", "i", "j", "k", "l", "m",
               "n", "o", "p", "q", "r", "s", "t", "u", "v", "w", "x", "y", "z">>

DecimalDigits == <<"0", "1", "2", "3", "4", "5", "6", "7", "8", "9">>

Range(s) == {s[i] : i \in DOMAIN s}

\* the characters the regular expression class \s and str.rstrip() treat as blank
Whitespace == {" ", "\t", "\n", "\r", "\f"}

\* str.lower() on one character
LowerChar(c) ==
    IF \E i \in DOMAIN UpperCase : UpperCase[i] = c
    THEN LowerCase[CHOOSE i \in DOMAIN UpperCase : UpperCase[i] = c]
    ELSE c

\* str.lower()
lower(s) == [i \in DOMAIN s |-> LowerChar(s[i])]

\* int(char) for a decimal digit character
IntOfChar(c) == (CHOOSE i \in DOMAIN DecimalDigits : DecimalDigits[i] = c) - 1

\* s[::-1] taken for s itself
Reversed_Unchanged(s) == s

\* s[::-1]
Reversed(s) == [i \in DOMAIN s |-> s[Len(s) + 1 - i]]

\* str.rstrip(): drops the trailing blanks only
rstrip(s) ==
    LET keep == {i \in DOMAIN s : s[i] \notin Whitespace}
        last == IF keep = {} THEN 0 ELSE CHOOSE i \in keep : \A j \in keep : j <= i
    IN  SubSeq(s, 1, last)

\* str.strip(): drops the leading and the trailing blanks
strip(s) ==
    LET keep  == {i \in DOMAIN s : s[i] \notin Whitespace}
        first == IF keep = {} THEN 1 ELSE CHOOSE i \in keep : \A j \in keep : i <= j
        last  == IF keep = {} THEN 0 ELSE CHOOSE i \in keep : \A j \in keep : j <= i
    IN  SubSeq(s, first, last)

\* whether the literal w occurs in s at position i
MatchesAt(w, s, i) ==
    /\ i >= 1
    /\ i + Len(w) - 1 <= Len(s)
    /\ \A k \in DOMAIN w : s[i + k - 1] = w[k]

\* "w in s" for strings
Contains(w, s) == \E i \in 1..(Len(s) + 1) : MatchesAt(w, s, i)

\* the text printed for None by an f-string
NoneText == <<"N", "o", "n", "e">>

\* f"{mat[0] if mat else mat}" for re.match("(a1|a2|...)", s): the first
\* alternative, in the order written, that matches at the start of s
re_match(alts, s) ==
    LET hits == {a \in DOMAIN alts : MatchesAt(alts[a], s, 1)}
    IN  IF hits = {} THEN NoneText
        ELSE alts[CHOOSE a \in hits : \A b \in hits : a <= b]

\* f"{mat[0] if mat else mat}" for re.search("(a1|a2|...)", s): the leftmost
\* position where an alternative matches, and the first alternative there
re_search(alts, s) ==
    LET pos == {i \in DOMAIN s : \E a \in DOMAIN alts : MatchesAt(alts[a], s, i)}
    IN  IF pos = {} THEN NoneText
        ELSE LET i    == CHOOSE p \in pos : \A q \in pos : p <= q
                 hits == {a \in DOMAIN alts : MatchesAt(alts[a], s, i)}
             IN  alts[CHOOSE a \in hits : \A b \in hits : a <= b]

\* f"{mat[0] if mat else mat}" for re.search("[...]", s): the first character
\* of s that is in the class
re_search_class(class, s) ==
    LET pos == {i \in DOMAIN s : s[i] \in class}
    IN  IF pos = {} THEN NoneText
        ELSE <<s[CHOOSE p \in pos : \A q \in pos : p <= q]>>

\* f"{mat[0] if mat else mat}" for re.search("[^...]", s): the first character
\* of s that is not in the class
re_search_not_class(class, s) ==
    LET pos == {i \in DOMAIN s : s[i] \notin class}
    IN  IF pos = {} THEN NoneText
        ELSE <<s[CHOOSE p \in pos : \A q \in pos : p <= q]>>

\* pathlib's PurePath.stem: the name up to its last dot, the whole name when
\* the last dot is the first or the last character or there is none
stem(name) ==
    LET dots == {i \in DOMAIN name : name[i] = "."}
        i    == IF dots = {} THEN 0 ELSE CHOOSE d \in dots : \A e \in dots : e <= d
    IN  IF 1 < i /\ i < Len(name) THEN SubSeq(name, 1, i - 1) ELSE name

\* pathlib's PurePath.suffix: the rest of the name, from its last dot
suffix(name) ==
    LET dots == {i \in DOMAIN name : name[i] = "."}
        i    == IF dots = {} THEN 0 ELSE CHOOSE d \in dots : \A e \in dots : e <= d
    IN  IF 1 < i /\ i < Len(name) THEN SubSeq(name, i, Len(name)) ELSE <<>>


(***************************************************************************)
(* ChallengeSpeedTyping: the phrases and the comparison of on_start.       *)
(***************************************************************************)
\* the characters of the regular expression class \w
WordChars == Range(UpperCase) \cup Range(LowerCase) \cup Range(DecimalDigits) \cup {"_"}

\* the k-th smallest member of a set of numbers
Kth(S, k) == CHOOSE x \in S : Cardinality({y \in S : y < x}) = k - 1

\* re.split(r"\W+", s): s is cut at every maximal run of non-word characters;
\* the pieces are what lies before, between and after the runs, so a piece is
\* empty where s begins or ends with a run
re_split_nonword(s) ==
    LET IsSep(i)  == s[i] \notin WordChars
        sepStarts == {i \in DOMAIN s : IsSep(i) /\ (i = 1 \/ ~IsSep(i - 1))}
        sepEnds   == {i \in DOMAIN s : IsSep(i) /\ (i = Len(s) \/ ~IsSep(i + 1))}
        n         == Cardinality(sepStarts)
        from(k)   == IF k = 1 THEN 1 ELSE Kth(sepEnds, k - 1) + 1
        to(k)     == IF k = n + 1 THEN Len(s) ELSE Kth(sepStarts, k) - 1
    IN  [k \in 1..(n + 1) |-> SubSeq(s, from(k), to(k))]

\* str.lower() left out
lower_Unchanged(s) == s

\* the s.lower() of "re.split(r"\W+", s.lower())"
lower_words(s) == lower(s)

\* "[word for word in re.split(r"\W+", s.lower()) if word != '']"
words(s) ==
    LET parts == re_split_nonword(lower_words(s))
        IsWord(word) == word # <<>>
    IN  SelectSeq(parts, IsWord)

\* two entries of self.phrases, each [phrase, seconds]
PhraseBaby ==
    [phrase |->
        <<"I", "'", "m", " ", "a", " ", "l", "i", "t", "t", "l", "e", " ", "b", "a",
          "b", "y">>,
     seconds |-> 6]

PhraseSigma ==
    [phrase |->
        <<"x", "d", "x", " ", "i", "m", " ", "s", "o", " ", "n", "o", "t", " ", "p",
          "o", "g", "g", "e", "r", "s", " ", "b", "e", "s", "t", "i", "e", " ", "l",
          "i", "e", "k", " ", "i", " ", "a", "m", " ", "N", "O", "T", " ", "g", "i",
          "v", "i", "n", "g", " ", "s", "k", "i", "b", "i", "d", "i", " ", "o", "h",
          "i", "o", " ", "r", "i", "z", "z", ".", " ", "l", "i", "k", "e", " ", "w",
          "h", "a", "t", " ", "t", "h", "e", " ", "s", "i", "g", "m", "a", " ", "6", "7">>,
     seconds |-> 33]

\* the entries of self.phrases that r.choice draws from here
phrases == {PhraseBaby, PhraseSigma}

\* the first phrase as printed
TypedExact ==
    <<"I", "'", "m", " ", "a", " ", "l", "i", "t", "t", "l", "e", " ", "b", "a", "b",
      "y">>

\* the first phrase in capitals
TypedUpper ==
    <<"I", "'", "M", " ", "A", " ", "L", "I", "T", "T", "L", "E", " ", "B", "A", "B",
      "Y">>

\* the first phrase with other punctuation and spacing
TypedPunctuated ==
    <<"i", " ", "m", ",", " ", " ", "a", " ", "l", "i", "t", "t", "l", "e", " ", "b",
      "a", "b", "y", "!", "!">>

\* the first phrase without its apostrophe
TypedNoApostrophe ==
    <<"I", "m", " ", "a", " ", "l", "i", "t", "t", "l", "e", " ", "b", "a", "b", "y">>

\* the first phrase with two words swapped
TypedSwapped ==
    <<"I", "'", "m", " ", "a", " ", "b", "a", "b", "y", " ", "l", "i", "t", "t", "l",
      "e">>

\* the first phrase without its last word
TypedShort ==
    <<"I", "'", "m", " ", "a", " ", "l", "i", "t", "t", "l", "e">>

\* the first phrase with an underscore for a blank
TypedUnderscore ==
    <<"I", "'", "m", " ", "a", " ", "l", "i", "t", "t", "l", "e", "_", "b", "a", "b",
      "y">>

\* the second phrase in small letters
TypedLowerSigma ==
    <<"x", "d", "x", " ", "i", "m", " ", "s", "o", " ", "n", "o", "t", " ", "p", "o",
      "g", "g", "e", "r", "s", " ", "b", "e", "s", "t", "i", "e", " ", "l", "i", "e",
      "k", " ", "i", " ", "a", "m", " ", "n", "o", "t", " ", "g", "i", "v", "i", "n",
      "g", " ", "s", "k", "i", "b", "i", "d", "i", " ", "o", "h", "i", "o", " ", "r",
      "i", "z", "z", ".", " ", "l", "i", "k", "e", " ", "w", "h", "a", "t", " ", "t",
      "h", "e", " ", "s", "i", "g", "m", "a", " ", "6", "7">>

\* what the player may type at the prompt of timedinput
TypedInputs ==
    { TypedExact, TypedUpper, TypedPunctuated, TypedNoApostrophe, TypedSwapped,
      TypedShort, TypedUnderscore, TypedLowerSigma, PhraseSigma.phrase, <<>> }

(***************************************************************************)
(* ChallengePasswordGame: the rule table and evaluate_rules.               *)
(***************************************************************************)
\* the rules of self.requirements, numbered in the order of the dictionary
RULE_MIN_LENGTH     == 1
RULE_NUMBER         == 2
RULE_SPECIAL        == 3
RULE_DIGIT_SUM      == 4
RULE_MONTH          == 5
RULE_MAX_LENGTH     == 6
RULE_ROMAN_NINE     == 7
RULE_REINDEER       == 8
RULE_FILE_MATCHES   == 9
RULE_FILE_REVERSED  == 10
RULE_ROMAN_START    == 11
RULE_NO_REPEATS     == 12
NUM_RULES           == 12

Rules == 1..NUM_RULES

\* self.requirements after __init__: [passed, shown] per rule, only the first shown
InitRequirements ==
    [i \in Rules |-> [passed |-> FALSE, shown |-> (i = RULE_MIN_LENGTH)]]

\* self.successful_password after __init__
InitSuccessfulPassword ==
    <<"y", "u", "a", "s", "e", "h", "f", " ", "o", "i", "j", "a", "s", "e", "p", "n",
      "f", "o", "9", "u", "a", "0", "9", "u", "p", "a", "o", "i", "w", "e", "j", "h",
      "f", "a", "l", "k", "n">>

MONTHS ==
    << <<"j", "a", "n", "u", "a", "r", "y">>,
       <<"f", "e", "b", "r", "u", "a", "r", "y">>,
       <<"m", "a", "r", "c", "h">>,
       <<"a", "p", "r", "i", "l">>,
       <<"m", "a", "y">>,
       <<"j", "u", "n", "e">>,
       <<"j", "u", "l", "y">>,
       <<"a", "u", "g", "u", "s", "t">>,
       <<"s", "e", "p", "t", "e", "m", "b", "e", "r">>,
       <<"n", "o", "v", "e", "m", "b", "e", "r">>,
       <<"d", "e", "c", "e", "m", "b", "e", "r">> >>

REINDEER ==
    << <<"d", "a", "s", "h", "e", "r">>,
       <<"d", "a", "n", "c", "e", "r">>,
       <<"p", "r", "a", "n", "c", "e", "r">>,
       <<"v", "i", "x", "e", "n">>,
       <<"c", "o", "m", "e", "t">>,
       <<"c", "u", "p", "i", "d">>,
       <<"d", "o", "n", "n", "e", "r">>,
       <<"b", "l", "i", "t", "z", "e", "n">>,
       <<"r", "u", "d", "o", "l", "p", "h">> >>

ROMAN_NUMERALS == << <<"I">>, <<"V">>, <<"X">>, <<"L">>, <<"M">>, <<"C">>, <<"D">> >>

\* the class [a-zA-Z0-9\s]
PlainChars == Range(UpperCase) \cup Range(LowerCase) \cup Range(DecimalDigits) \cup Whitespace

\* the loop counting the digits instead of adding them up
DigitSum_Count(s) == Cardinality({i \in DOMAIN s : s[i] \in Range(DecimalDigits)})

\* the loop "for char in content: if char in '123456789': sum += int(char)"
RECURSIVE DigitSum(_)
DigitSum(s) ==
    IF s = <<>> THEN 0
    ELSE (IF Head(s) \in (Range(DecimalDigits) \ {"0"}) THEN IntOfChar(Head(s)) ELSE 0)
         + DigitSum(Tail(s))

\* the loop listing the repeated characters in the order they first stand in
\* the text, whatever the place of their repetitions
RepeatScan_FirstSeenOrder(s, char_list, repeat_list, no_repeats) ==
    LET first(c)  == CHOOSE i \in DOMAIN s : s[i] = c /\ \A j \in 1..(i - 1) : s[j] # c
        repeated  == {c \in Range(s) : Cardinality({i \in DOMAIN s : s[i] = c}) > 1}
        places    == {first(c) : c \in repeated}
    IN  [repeat_list |-> [k \in 1..Cardinality(places) |-> s[Kth(places, k)]],
         no_repeats  |-> repeated = {}]

\* the loop over lower_content that fills char_list and repeat_list
RECURSIVE RepeatScan(_, _, _, _)
RepeatScan(s, char_list, repeat_list, no_repeats) ==
    IF s = <<>> THEN [repeat_list |-> repeat_list, no_repeats |-> no_repeats]
    ELSE IF Head(s) \notin Range(char_list)
         THEN RepeatScan(Tail(s), Append(char_list, Head(s)), repeat_list, no_repeats)
         ELSE RepeatScan(Tail(s), char_list,
                         IF Head(s) \notin Range(repeat_list)
                         THEN Append(repeat_list, Head(s)) ELSE repeat_list,
                         FALSE)

\* "for bools in self.requirements.values(): bools[0] = False" without the reset
ResetPassed_Missing(req) == req

\* the reset taken for one that also hides every rule but the first
ResetPassed_AlsoHides(req) ==
    [i \in DOMAIN req |-> [passed |-> FALSE, shown |-> (i = RULE_MIN_LENGTH)]]

\* "for bools in list(self.requirements.values()): bools[0] = False"
ResetPassed(req) == [i \in DOMAIN req |-> [req[i] EXCEPT !.passed = FALSE]]

\* "if cond: self.requirements[rule][0] = True"
SetPassedIf(req, rule, cond) ==
    IF cond THEN [req EXCEPT ![rule].passed = TRUE] ELSE req

\* the body of evaluate_rules once content, lower_content and title are set:
\* the new self.requirements and the list of matches it returns
RulesOn(req, content, lower_content, title) ==
    LET r0  == ResetPassed(req)
        r1  == SetPassedIf(r0, RULE_MIN_LENGTH, Len(content) >= 8)
        r2  == SetPassedIf(r1, RULE_NUMBER,
                           re_search_class(Range(DecimalDigits), content) # NoneText)
        r3  == SetPassedIf(r2, RULE_SPECIAL,
                           re_search_not_class(PlainChars, content) # NoneText)
        sum == DigitSum(content)
        r4  == SetPassedIf(r3, RULE_DIGIT_SUM, sum = 25)
        r5  == SetPassedIf(r4, RULE_MONTH, re_search(MONTHS, lower_content) # NoneText)
        r6  == SetPassedIf(r5, RULE_MAX_LENGTH, Len(content) <= 18)
        ix  == Contains(<<"I", "X">>, content)
        r7  == SetPassedIf(r6, RULE_ROMAN_NINE, ix)
        r8  == SetPassedIf(r7, RULE_REINDEER, re_match(REINDEER, lower_content) # NoneText)
        r9  == SetPassedIf(r8, RULE_FILE_MATCHES,
                           title = content \/ title = Reversed(content))
        r10 == SetPassedIf(r9, RULE_FILE_REVERSED, title = Reversed(content))
        r11 == SetPassedIf(r10, RULE_ROMAN_START,
                           re_match(ROMAN_NUMERALS, content) # NoneText)
        scan == RepeatScan(lower_content, <<>>, <<>>, TRUE)
        r12 == [r11 EXCEPT ![RULE_NO_REPEATS].passed = scan.no_repeats]
    IN  [requirements |-> r12,
         matches |-> << Len(content),
                        re_search_class(Range(DecimalDigits), content),
                        re_search_not_class(PlainChars, content),
                        sum,
                        re_search(MONTHS, lower_content),
                        Len(content),
                        ix,
                        re_match(REINDEER, lower_content),
                        title,
                        title,
                        re_match(ROMAN_NUMERALS, content),
                        scan.repeat_list >>]

\* evaluate_rules(path), given the text path.read_text() returns:
\* "content = path.read_text().rstrip()", "lower_content = content.lower()",
\* "title = path.stem", then the rules (each local is bound to its value
\* through a one-element set, so that it is computed once)
evaluate_rules(req, name, text) ==
    CHOOSE result \in
        UNION { { RulesOn(req, content, lower_content, title) :
                     lower_content \in {lower(content)}, title \in {stem(name)} } :
                content \in {rstrip(text)} } : TRUE

(***************************************************************************)
(* ChallengePasswordGame.is_completed: the disclosure walk over the rules. *)
(***************************************************************************)
\* the unlock test with the loop over the earlier rules left out
ShowNext_Unchecked(req, i) == TRUE

\* "for j in range(i+1): if not ...[j][0]: show_next = False": rule i and all
\* the rules before it are met
ShowNext(req, i) == \A j \in 1..i : req[j].passed

\* a rule that is not met leaves the success flag as it was
FailedRule_Ignored(bools, success) == success

\* "if not bools[0]: success = False"
FailedRule(bools, success) == FALSE

\* the loop "for i, (rule, bools) in enumerate(self.requirements.items())" from
\* rule i on: the requirements and the success flag at its end
RECURSIVE Walk(_, _, _)
RECURSIVE Unlock(_, _, _)
Walk(req, i, success) ==
    IF i > NUM_RULES THEN [requirements |-> req, success |-> success]
    ELSE IF ~req[i].passed
         THEN IF req[i].shown
              THEN Unlock(req, i, FailedRule(req[i], success))
              ELSE [requirements |-> req, success |-> FailedRule(req[i], success)]
         ELSE IF req[i].shown
              THEN Unlock(req, i, success)
              ELSE Walk(req, i + 1, success)

\* the "Do I unlock a new rule" block for rule i; the IndexError raised for
\* the rule after the last one ends the loop
Unlock(req, i, success) ==
    IF ShowNext(req, i)
    THEN IF i + 1 > NUM_RULES
         THEN [requirements |-> req, success |-> success]
         ELSE Walk([req EXCEPT ![i + 1].shown = TRUE], i + 1, success)
    ELSE Walk(req, i + 1, success)

(***************************************************************************)
(* The altar and the files the player puts on it.                          *)
(***************************************************************************)
\* the reserved file name written by set_folder_icon
DESKTOP_INI == <<"d", "e", "s", "k", "t", "o", "p", ".", "i", "n", "i">>

ReversedName ==
    <<"!", "1", "7", "8", "9", "X", "I", "y", "l", "u", "j", "r", "e", "h", "s", "a",
      "D", ".", "t", "x", "t">>

TextName == <<"a", ".", "t", "x", "t">>

ImageName == <<"d", "e", "e", "r", ".", "p", "n", "g">>

\* a password that meets the twelve rules, saved with a final newline
GoodText ==
    <<"D", "a", "s", "h", "e", "r", "j", "u", "l", "y", "I", "X", "9", "8", "7", "1",
      "!", "\n">>

\* the same password after a blank
BlankFirstText ==
    <<" ", "D", "a", "s", "h", "e", "r", "j", "u", "l", "y", "I", "X", "9", "8", "7",
      "1", "!">>

ShortText == <<"s", "h", "o", "r", "t">>

NoSpecialText == <<"a", "b", "c", "d", "e", "f", "g", "1">>

RomanText == <<"I", "X">>

ImageText == <<"P", "N", "G">>

Names == {DESKTOP_INI, ReversedName, TextName, ImageName}

NoFile == [exists |-> FALSE, readable |-> FALSE, text |-> <<>>, mtime |-> 0]

\* what the player may save: a name, the text and whether the program can read
\* and decode it
FilePool ==
    { [name |-> ReversedName, text |-> GoodText,       readable |-> TRUE],
      [name |-> ReversedName, text |-> BlankFirstText, readable |-> TRUE],
      [name |-> TextName,     text |-> ShortText,      readable |-> TRUE],
      [name |-> TextName,     text |-> NoSpecialText,  readable |-> TRUE],
      [name |-> TextName,     text |-> RomanText,      readable |-> TRUE],
      [name |-> TextName,     text |-> <<>>,           readable |-> FALSE],
      [name |-> ImageName,    text |-> ImageText,      readable |-> TRUE],
      [name |-> ImageName,    text |-> <<>>,           readable |-> FALSE] }

\* the value of VALID_EXTS' keys
VALID_EXTS ==
    { <<".", "j", "p", "g">>, <<".", "j", "p", "e", "g">>, <<".", "p", "n", "g">>,
      <<".", "w", "e", "b", "p">> }

(***************************************************************************)
(* The state.                                                              *)
(***************************************************************************)
VARIABLES
    challenges,          \* ChallengeRunner.challenges: the kinds, in list order
    idx,                 \* run: the challenge of the for loop, from 1
    pc,                  \* run: where the main thread is
    password,            \* run: the local "password"
    attempts_remaining,  \* run: the local "attempts_remaining"
    winner_opened,       \* whether webbrowser.open(WINNER_WEBPAGE) was called
    exit_status,         \* the exit status of the process, -1 while it runs
    exit_cause,          \* what ended the process
    ret,                 \* the value the last is_completed call returned
    hooks,               \* the hook calls run has made so far, in order
    altar,               \* the altar folder: file name -> file
    writes,              \* how many times the player changed the altar
    requirements,        \* ChallengePasswordGame.requirements
    successful_password, \* ChallengePasswordGame.successful_password
    ppc,                 \* ChallengePasswordGame.is_completed: where the call is
    listing,             \* is_completed: the entries of iterdir() not yet visited
    p,                   \* is_completed: the loop variable p
    mod_time,            \* await_file_change: the local mod_time
    skip_await,          \* is_completed: the parameter skip_await
    matches,             \* is_completed: the list evaluate_rules returned
    evaluated,           \* the name and text evaluate_rules last read in this call
    remote_calls,        \* calls of generate_content made for this challenge
    interrupted,         \* whether the main thread's last step was the delivery
                         \* of a KeyboardInterrupt
    entries,             \* how many times input() returned at the password gate
    entered_pass,        \* run: the local "entered_pass"
    response,            \* what the last call of generate_content did
    selection,           \* ChallengeSpeedTyping.selection: [phrase, seconds]
    passed,              \* ChallengeSpeedTyping.passed
    timer,               \* timedinput: the state of the Timer thread t_thread
    completed_input,     \* ChallengeSpeedTyping.on_start: the local "completed_input"
    math                 \* ChallengeMathAnswer: a, b, c and correct_answer

vars == << challenges, idx, pc, password, attempts_remaining, winner_opened,
           exit_status, exit_cause, ret, hooks, altar, writes, requirements,
           successful_password, ppc, listing, p, mod_time, skip_await, matches,
           evaluated, remote_calls, interrupted, entries, entered_pass, response,
           selection, passed, timer, completed_input, math >>

runnerVars == << challenges, idx, pc, password, attempts_remaining, winner_opened,
                 exit_status, exit_cause, ret, hooks, entries, entered_pass >>

passwordVars == << requirements, successful_password, ppc, listing, p, mod_time,
                   skip_await, matches, evaluated >>

typingVars == << selection, passed, timer, completed_input >>

\* the local "password" of run before any challenge has returned a payload
InitPassword ==
    <<"w", "s", "e", "d", "r", "f", "v", "b", "h", "o", "i", "a", "s", "d", "f", " ",
      "h", "o", "i", "u", "a", "s", "h", "f", "b", "o", "k", "h", "u", "n", "h", "h">>

Kinds == {"ChallengePasswordGame", "ChallengeFeedReindeerImage"}

\* the lists main() can build: each challenge object at most once
ChallengeLists ==
    { l \in UNION {[1..n -> Kinds] : n \in 1..MaxChallenges} :
        \A i, j \in DOMAIN l : i # j => l[i] # l[j] }

\* "attempts_remaining = 3"
InitAttempts == 3

\* no call of generate_content was made in this is_completed call
NoResponse == [kind |-> "none", text |-> <<>>]

\* no ChallengeMathAnswer was constructed
NoMath == [a |-> 0, b |-> 0, c |-> 0, correct_answer |-> <<>>]

\* no ChallengeSpeedTyping was constructed
NoSelection == [phrase |-> <<>>, seconds |-> 0]

NotEvaluated == [done |-> FALSE, name |-> <<>>, text |-> <<>>]

Init ==
    /\ challenges \in ChallengeLists
    /\ idx = 1
    /\ pc = "on_start"
    /\ password = InitPassword
    /\ attempts_remaining = InitAttempts
    /\ winner_opened = FALSE
    /\ exit_status = -1
    /\ exit_cause = "running"
    /\ ret = "None"
    /\ hooks = <<>>
    /\ \E f \in FilePool \cup {NoFile} :
          altar = [n \in Names |->
                     IF n = DESKTOP_INI
                     THEN [exists |-> TRUE, readable |-> TRUE, text |-> <<>>, mtime |-> 0]
                     ELSE IF f # NoFile /\ f.name = n
                          THEN [exists |-> TRUE, readable |-> f.readable,
                                text |-> f.text, mtime |-> 0]
                          ELSE NoFile]
    /\ writes = 0
    /\ requirements = InitRequirements
    /\ successful_password = InitSuccessfulPassword
    /\ ppc = "idle"
    /\ listing = {}
    /\ p = <<>>
    /\ mod_time = 0
    /\ skip_await = FALSE
    /\ matches = <<>>
    /\ evaluated = NotEvaluated
    /\ remote_calls = 0
    /\ interrupted = FALSE
    /\ entries = 0
    /\ entered_pass = <<>>
    /\ response = NoResponse
    /\ selection = NoSelection
    /\ passed = FALSE
    /\ timer = "idle"
    /\ completed_input = <<>>
    /\ math = NoMath

(***************************************************************************)
(* The player.                                                             *)
(***************************************************************************)
Running == pc # "exit"

\* the player saves a file: its modification time becomes the current time
PlayerWrite(f) ==
    /\ UNCHANGED << typingVars, response, math >>
    /\ Running
    /\ writes < MaxWrites
    /\ writes' = writes + 1
    /\ altar' = [altar EXCEPT ![f.name] =
                    [exists |-> TRUE, readable |-> f.readable, text |-> f.text,
                     mtime |-> writes + 1]]
    /\ UNCHANGED << runnerVars, passwordVars, remote_calls, interrupted >>

\* the player deletes or renames away a file
PlayerRemove(n) ==
    /\ UNCHANGED << typingVars, response, math >>
    /\ Running
    /\ writes < MaxWrites
    /\ n # DESKTOP_INI
    /\ altar[n].exists
    /\ writes' = writes + 1
    /\ altar' = [altar EXCEPT ![n] = NoFile]
    /\ UNCHANGED << runnerVars, passwordVars, remote_calls, interrupted >>

\* altar_path.iterdir(): the names in the folder now
iterdir == {n \in DOMAIN altar : altar[n].exists}

(***************************************************************************)
(* ChallengeRunner.run: the loop over the challenges.                      *)
(***************************************************************************)
Kind == challenges[idx]

\* the process ends with this status: its memory is gone, what is left is the
\* altar, what the player saw and typed and the record of the calls made
Exit(status, cause) ==
    /\ pc' = "exit"
    /\ exit_status' = status
    /\ exit_cause' = cause
    /\ password' = <<>>
    /\ attempts_remaining' = 0
    /\ ret' = "None"
    /\ requirements' = InitRequirements
    /\ successful_password' = <<>>
    /\ ppc' = "idle"
    /\ listing' = {}
    /\ p' = <<>>
    /\ mod_time' = 0
    /\ skip_await' = FALSE
    /\ matches' = <<>>
    /\ evaluated' = NotEvaluated
    /\ UNCHANGED << challenges, idx, hooks, altar, writes >>

\* an exception leaves run and main: the interpreter prints the traceback and
\* ends with status 1
Crash(cause) == Exit(1, cause)

\* the statuses the interpreter ends with when KeyboardInterrupt leaves main:
\* death by SIGINT (130 to a shell) or, on Windows, STATUS_CONTROL_C_EXIT
\* (0xC000013A, here as a signed 32-bit number)
UncaughtInterruptStatus == {130, -1073741510}

\* the truth value Python gives to what is_completed returned (True, False or
\* None)
bool(value) == value = "True"

\* the record of a hook call: the hook, the challenge's place in the list and
\* the truth value of what the call returned
HookCall(hook, k, result) == [hook |-> hook, k |-> k, result |-> result]

\* the record of one more is_completed call; a run of calls of one challenge
\* that returned a false value is recorded once
Polled(h, k, value) ==
    IF ~bool(value) /\ h # <<>> /\ h[Len(h)] = HookCall("is_completed", k, FALSE)
    THEN h
    ELSE Append(h, HookCall("is_completed", k, bool(value)))

\* ch.on_start(): the inherited hook, which passes (every kind but
\* ChallengeSpeedTyping)
OnStart ==
    /\ UNCHANGED << typingVars, response, math >>
    /\ pc = "on_start"
    /\ Kind # "ChallengeSpeedTyping"
    /\ hooks' = Append(hooks, HookCall("on_start", idx, FALSE))
    /\ pc' = "poll"
    /\ interrupted' = FALSE
    /\ UNCHANGED << challenges, idx, password, attempts_remaining, winner_opened,
                    exit_status, exit_cause, ret, entries, entered_pass, altar, writes,
                    passwordVars, remote_calls >>

\* the test of "if ch.is_completed(self.altar_path)" taken for any value
RunnerTruthy_Always(value) == TRUE

\* "if ch.is_completed(self.altar_path)": the truth value of what was returned
RunnerTruthy(value) == bool(value)

\* ch.on_complete(): ChallengePasswordGame returns self.successful_password,
\* the other kinds return None
on_complete(kind) ==
    IF kind = "ChallengePasswordGame"
    THEN [none |-> FALSE, value |-> successful_password]
    ELSE [none |-> TRUE, value |-> <<>>]

\* "if result: password = result"
PasswordAfter(result) ==
    IF ~result.none /\ result.value # <<>> THEN result.value ELSE password

\* the loop "while True" is not left after on_complete
AfterBreak_NoBreak(i) == [idx |-> i, pc |-> "poll"]

\* "break": the for loop goes to the next challenge, and to the password gate
\* after the last one
AfterBreak(i) ==
    [idx |-> i + 1, pc |-> IF i + 1 > Len(challenges) THEN "gate" ELSE "on_start"]

\* run has the value of the is_completed call: what the call evaluated is
\* forgotten
CallIsOver ==
    /\ matches' = <<>>
    /\ evaluated' = NotEvaluated
    /\ response' = NoResponse
    /\ interrupted' = FALSE

\* is_completed returned a true value: on_complete, the payload, break; the
\* classifier is not called again once its challenge is left
RunnerComplete ==
    /\ UNCHANGED << typingVars, math >>
    /\ pc = "returned"
    /\ RunnerTruthy(ret)
    /\ hooks' = Append(Polled(hooks, idx, ret), HookCall("on_complete", idx, FALSE))
    /\ password' = PasswordAfter(on_complete(Kind))
    /\ idx' = AfterBreak(idx).idx
    /\ pc' = AfterBreak(idx).pc
    /\ CallIsOver
    /\ remote_calls' = 0
    /\ UNCHANGED << challenges, attempts_remaining, winner_opened, exit_status,
                    exit_cause, ret, entries, entered_pass, altar, writes, requirements,
                    successful_password, ppc, listing, p, mod_time, skip_await >>

\* is_completed returned a false value: time.sleep(POLL_INTERVAL), poll again
RunnerSleep ==
    /\ UNCHANGED << typingVars, math >>
    /\ pc = "returned"
    /\ ~RunnerTruthy(ret)
    /\ hooks' = Polled(hooks, idx, ret)
    /\ pc' = "poll"
    /\ CallIsOver
    /\ UNCHANGED << challenges, idx, password, attempts_remaining, winner_opened,
                    exit_status, exit_cause, ret, entries, entered_pass, altar, writes,
                    requirements, successful_password, ppc, listing, p, mod_time,
                    skip_await, remote_calls >>

(***************************************************************************)
(* ChallengeRunner.run: the password gate.                                 *)
(***************************************************************************)
\* what the player may type at the gate
GateEntries == {InitPassword, rstrip(GoodText), BlankFirstText, ShortText}

\* the gate's loop left one entry early
GateLoopCond_Positive(attempts) == attempts > 0

\* "while attempts_remaining >= 0"
GateLoopCond(attempts) == attempts >= 0

\* one pass of the gate's loop in which input() returns typed
GateEntry(typed) ==
    /\ UNCHANGED << typingVars, response, math >>
    /\ pc = "gate"
    /\ GateLoopCond(attempts_remaining)
    /\ entered_pass' = typed
    /\ entries' = entries + 1
    /\ interrupted' = FALSE
    /\ IF typed = password
       THEN /\ winner_opened' = TRUE
            /\ Exit(0, "winner")
       ELSE /\ attempts_remaining' = attempts_remaining - 1
            /\ UNCHANGED << challenges, idx, pc, password, winner_opened,
                            exit_status, exit_cause, ret, hooks, altar, writes,
                            passwordVars >>
    /\ UNCHANGED remote_calls

\* the loop ends: "Ooh tough luck", run and main return
GateExhausted ==
    /\ UNCHANGED << typingVars, response, math >>
    /\ pc = "gate"
    /\ ~GateLoopCond(attempts_remaining)
    /\ Exit(0, "attempts_exhausted")
    /\ entered_pass' = <<>>
    /\ interrupted' = FALSE
    /\ UNCHANGED << winner_opened, entries, remote_calls >>

(***************************************************************************)
(* ChallengePasswordGame.is_completed, one step per access to the altar.   *)
(***************************************************************************)
\* is_completed returns value to run; its locals are gone
PwReturn(value) ==
    /\ ret' = value
    /\ pc' = "returned"
    /\ ppc' = "idle"
    /\ listing' = {}
    /\ p' = <<>>
    /\ mod_time' = 0
    /\ skip_await' = FALSE

\* run calls ch.is_completed(self.altar_path): altar_path.iterdir() is listed
PwCall ==
    /\ UNCHANGED << typingVars, response, math >>
    /\ pc = "poll"
    /\ Kind = "ChallengePasswordGame"
    /\ pc' = "in_call"
    /\ ppc' = "iter"
    /\ listing' = iterdir
    /\ skip_await' = FALSE
    /\ interrupted' = FALSE
    /\ UNCHANGED << challenges, idx, password, attempts_remaining, winner_opened,
                    exit_status, exit_cause, ret, hooks, entries, entered_pass, altar, writes,
                    requirements, successful_password, p, mod_time, matches,
                    evaluated, remote_calls >>

\* "for p in altar_path.iterdir(): if p.is_file() and p.name != 'desktop.ini'"
PwIter ==
    /\ UNCHANGED << typingVars, response, math >>
    /\ pc = "in_call"
    /\ ppc = "iter"
    /\ \E q \in listing :
          /\ listing' = listing \ {q}
          /\ IF altar[q].exists /\ q # DESKTOP_INI
             THEN /\ p' = q
                  /\ ppc' = IF skip_await THEN "read" ELSE "await_start"
             ELSE UNCHANGED << p, ppc >>
    /\ interrupted' = FALSE
    /\ UNCHANGED << runnerVars, altar, writes, requirements, successful_password,
                    mod_time, skip_await, matches, evaluated, remote_calls >>

\* the for loop ends without a return statement: is_completed returns None
PwReturnNone ==
    /\ UNCHANGED << typingVars, response, math >>
    /\ pc = "in_call"
    /\ ppc = "iter"
    /\ listing = {}
    /\ PwReturn("None")
    /\ interrupted' = FALSE
    /\ UNCHANGED << challenges, idx, password, attempts_remaining, winner_opened,
                    exit_status, exit_cause, hooks, entries, entered_pass, altar, writes,
                    requirements, successful_password, matches, evaluated,
                    remote_calls >>

\* "except FileNotFoundError: return self.is_completed(altar_path, True)": the
\* call made in return position lists the altar again and skips the wait
PwRecurse ==
    /\ ppc' = "iter"
    /\ listing' = iterdir
    /\ skip_await' = TRUE
    /\ p' = <<>>
    /\ mod_time' = 0

\* await_file_change: "mod_time = os.path.getmtime(path)"
PwAwaitStart ==
    /\ UNCHANGED << typingVars, response, math >>
    /\ pc = "in_call"
    /\ ppc = "await_start"
    /\ IF altar[p].exists
       THEN /\ mod_time' = altar[p].mtime
            /\ ppc' = "await"
            /\ UNCHANGED << listing, skip_await, p >>
       ELSE PwRecurse
    /\ interrupted' = FALSE
    /\ UNCHANGED << runnerVars, altar, writes, requirements, successful_password,
                    matches, evaluated, remote_calls >>

\* await_file_change: a pass of "while True" that ends the wait; a pass that
\* finds the same modification time sleeps and changes nothing
PwAwaitPoll ==
    /\ UNCHANGED << typingVars, response, math >>
    /\ pc = "in_call"
    /\ ppc = "await"
    /\ IF altar[p].exists
       THEN /\ altar[p].mtime # mod_time
            /\ ppc' = "read"
            /\ UNCHANGED << listing, skip_await, p, mod_time >>
       ELSE PwRecurse
    /\ interrupted' = FALSE
    /\ UNCHANGED << runnerVars, altar, writes, requirements, successful_password,
                    matches, evaluated, remote_calls >>

\* print_prompt(f"Your password is {p.read_text()}"), outside any try
PwRead ==
    /\ UNCHANGED << typingVars, response, math >>
    /\ pc = "in_call"
    /\ ppc = "read"
    /\ IF ~altar[p].exists \/ ~altar[p].readable
       THEN Crash(IF altar[p].exists THEN "unreadable_candidate"
                  ELSE "FileNotFoundError")
       ELSE /\ ppc' = "eval"
            /\ UNCHANGED << challenges, idx, pc, password, attempts_remaining,
                            exit_status, exit_cause, ret, hooks, altar, writes,
                            requirements, successful_password, listing, p,
                            mod_time, skip_await, matches, evaluated >>
    /\ interrupted' = FALSE
    /\ UNCHANGED << winner_opened, entries, entered_pass, remote_calls >>

\* "try: matches = self.evaluate_rules(p) except: continue", then the loop
\* over the rules and, without success, "return success"
PwEvaluate ==
    /\ UNCHANGED << typingVars, response, math >>
    /\ pc = "in_call"
    /\ ppc = "eval"
    /\ IF ~altar[p].exists \/ ~altar[p].readable
       THEN /\ ppc' = "iter"
            /\ UNCHANGED << requirements, matches, evaluated, ret, pc, listing, p,
                            mod_time, skip_await >>
       ELSE \E ev \in {evaluate_rules(requirements, p, altar[p].text)} :
            \E w \in {Walk(ev.requirements, 1, TRUE)} :
                /\ requirements' = w.requirements
                /\ matches' = ev.matches
                /\ evaluated' = [done |-> TRUE, name |-> p, text |-> altar[p].text]
                /\ IF w.success
                   THEN /\ ppc' = "capture"
                        /\ UNCHANGED << ret, pc, listing, p, mod_time, skip_await >>
                   ELSE PwReturn("False")
    /\ interrupted' = FALSE
    /\ UNCHANGED << challenges, idx, password, attempts_remaining, winner_opened,
                    exit_status, exit_cause, hooks, entries, entered_pass, altar, writes,
                    successful_password, remote_calls >>

\* "if success: self.successful_password = p.read_text().rstrip()" and
\* "return success"
PwCapture ==
    /\ UNCHANGED << typingVars, response, math >>
    /\ pc = "in_call"
    /\ ppc = "capture"
    /\ IF ~altar[p].exists \/ ~altar[p].readable
       THEN Crash(IF altar[p].exists THEN "unreadable_candidate"
                  ELSE "FileNotFoundError")
       ELSE /\ successful_password' = rstrip(altar[p].text)
            /\ PwReturn("True")
            /\ UNCHANGED << challenges, idx, password, attempts_remaining,
                            exit_status, exit_cause, hooks, altar, writes,
                            requirements, matches, evaluated >>
    /\ interrupted' = FALSE
    /\ UNCHANGED << winner_opened, entries, entered_pass, remote_calls >>

(***************************************************************************)
(* ChallengeFeedReindeerImage.is_completed and gemini_eyeballs.            *)
(***************************************************************************)
\* what client.models.generate_content can do: answer with a text or with no
\* text, or raise APIError with code 429, APIError with another code, or
\* another exception
RemoteTexts ==
    { <<"y", "e", "s">>, <<"Y", "e", "s", ".">>, <<"n", "o">>,
      <<"m", "a", "y", "b", "e">>, <<>> }

RemoteOutcomes ==
    {[kind |-> "text", text |-> t] : t \in RemoteTexts}
    \cup {[kind |-> k, text |-> <<>>] :
             k \in {"no_text", "rate_limit", "api_error", "exception"}}

\* the number of "if queries > 4"
QueryBudget == 4

\* gemini_eyeballs(prompt, candidate) for a candidate that is readable or not
\* and a remote call that ends as outcome: what the function does (return,
\* raise, exit), the value it returns and whether the remote was called
gemini_eyeballs(readable, outcome) ==
    LET queries == 0
    IN  IF ~readable
        THEN [does |-> "raise", cause |-> "unreadable_candidate", none |-> TRUE,
              value |-> <<>>, called |-> FALSE]
        ELSE IF queries > QueryBudget
        THEN [does |-> "return", cause |-> "cooldown", none |-> TRUE,
              value |-> <<>>, called |-> FALSE]
        ELSE IF outcome.kind = "rate_limit"
        THEN [does |-> "exit", cause |-> "rate_limit", none |-> TRUE,
              value |-> <<>>, called |-> TRUE]
        ELSE IF outcome.kind = "api_error"
        THEN [does |-> "raise", cause |-> "UnboundLocalError", none |-> TRUE,
              value |-> <<>>, called |-> TRUE]
        ELSE IF outcome.kind = "exception"
        THEN [does |-> "return", cause |-> "exception", none |-> TRUE,
              value |-> <<>>, called |-> TRUE]
        ELSE [does |-> "return", cause |-> "response", none |-> outcome.kind = "no_text",
              value |-> outcome.text, called |-> TRUE]

\* any answer with a text counts as a yes
ImageAccepted_AnyText(image_check) ==
    ~image_check.none /\ image_check.value # <<>>

\* "if image_check and image_check[0] in 'yY'"
ImageAccepted(image_check) ==
    /\ ~image_check.none
    /\ image_check.value # <<>>
    /\ image_check.value[1] \in {"y", "Y"}

\* one more call of generate_content
CountRemote(n) == IF n < MaxRemoteCalls THEN n + 1 ELSE n

\* is_completed finds no entry but desktop.ini and returns False
ReindeerNoFile ==
    /\ UNCHANGED << typingVars, response, math >>
    /\ pc = "poll"
    /\ Kind = "ChallengeFeedReindeerImage"
    /\ iterdir \ {DESKTOP_INI} = {}
    /\ ret' = "False"
    /\ pc' = "returned"
    /\ interrupted' = FALSE
    /\ UNCHANGED << challenges, idx, password, attempts_remaining, winner_opened,
                    exit_status, exit_cause, hooks, entries, entered_pass, altar, writes,
                    passwordVars, remote_calls >>

\* is_completed meets a file without an image suffix first: os.remove(p) and
\* "return False"
ReindeerWrongType ==
    /\ UNCHANGED << typingVars, response, math >>
    /\ pc = "poll"
    /\ Kind = "ChallengeFeedReindeerImage"
    /\ \E q \in iterdir \ {DESKTOP_INI} :
          /\ lower(suffix(q)) \notin VALID_EXTS
          /\ altar' = [altar EXCEPT ![q] = NoFile]
    /\ ret' = "False"
    /\ pc' = "returned"
    /\ interrupted' = FALSE
    /\ UNCHANGED << challenges, idx, password, attempts_remaining, winner_opened,
                    exit_status, exit_cause, hooks, entries, entered_pass, writes, passwordVars,
                    remote_calls >>

\* is_completed, when iterdir() yields the image q first and the remote call
\* of gemini_eyeballs ends as outcome
ReindeerLook(q, outcome) ==
    /\ UNCHANGED << typingVars, math >>
    /\ pc = "poll"
    /\ Kind = "ChallengeFeedReindeerImage"
    /\ q \in iterdir \ {DESKTOP_INI}
    /\ lower(suffix(q)) \in VALID_EXTS
    /\ \E image_check \in {gemini_eyeballs(altar[q].readable, outcome)} :
          /\ response' = IF image_check.called THEN outcome ELSE NoResponse
          /\ remote_calls' = IF image_check.called
                             THEN CountRemote(remote_calls) ELSE remote_calls
          /\ CASE image_check.does = "raise" -> Crash(image_check.cause)
               [] image_check.does = "exit" -> Exit(0, image_check.cause)
               [] OTHER ->
                    /\ ret' = IF ImageAccepted(image_check) THEN "True" ELSE "False"
                    /\ pc' = "returned"
                    /\ UNCHANGED << challenges, idx, password,
                                    attempts_remaining, exit_status,
                                    exit_cause, hooks, altar, writes,
                                    passwordVars >>
    /\ interrupted' = FALSE
    /\ UNCHANGED << winner_opened, entries, entered_pass >>

\* is_completed meets an image first and asks gemini_eyeballs
ReindeerImage ==
    \E q \in DOMAIN altar, outcome \in RemoteOutcomes : ReindeerLook(q, outcome)

(***************************************************************************)
(* ChallengeSpeedTyping.on_start with timedinput, and is_completed.        *)
(***************************************************************************)
\* "t_thread = threading.Timer(float(timeout), _input_timer)",
\* "t_thread.start()": on_start has been called and the timer runs
TypingStart ==
    /\ UNCHANGED math
    /\ pc = "on_start"
    /\ Kind = "ChallengeSpeedTyping"
    /\ hooks' = Append(hooks, HookCall("on_start", idx, FALSE))
    /\ timer' = "armed"
    /\ pc' = "input"
    /\ interrupted' = FALSE
    /\ UNCHANGED << challenges, idx, password, attempts_remaining, winner_opened,
                    exit_status, exit_cause, ret, entries, entered_pass, altar, writes,
                    passwordVars, remote_calls, response, selection, passed,
                    completed_input >>

\* the deadline handler ends the process at once
input_timer_Graceful == [does |-> "exit", status |-> 0, cause |-> "time_up"]

\* _input_timer(): "os._exit(1)"
input_timer == [does |-> "exit", status |-> 1, cause |-> "time_up"]

\* the Timer thread runs _input_timer once the deadline has passed and
\* cancel() has not been called
TimesUp ==
    /\ UNCHANGED math
    /\ Running
    /\ timer = "armed"
    /\ timer' = "fired"
    /\ Exit(input_timer.status, input_timer.cause)
    /\ interrupted' = FALSE
    /\ UNCHANGED << winner_opened, entries, entered_pass, remote_calls, response,
                    selection, passed, completed_input >>

\* "result = input(message)" returns what the player typed
TypingInput(typed) ==
    /\ UNCHANGED math
    /\ pc = "input"
    /\ completed_input' = typed
    /\ pc' = "cancel"
    /\ interrupted' = FALSE
    /\ UNCHANGED << challenges, idx, password, attempts_remaining, winner_opened,
                    exit_status, exit_cause, ret, hooks, entries, entered_pass, altar,
                    writes, passwordVars, remote_calls, response, selection, passed,
                    timer >>

\* "t_thread.cancel()", "return result"
TypingCancel ==
    /\ UNCHANGED math
    /\ pc = "cancel"
    /\ timer' = "idle"
    /\ pc' = "compare"
    /\ interrupted' = FALSE
    /\ UNCHANGED << challenges, idx, password, attempts_remaining, winner_opened,
                    exit_status, exit_cause, ret, hooks, entries, entered_pass, altar,
                    writes, passwordVars, remote_calls, response, selection, passed,
                    completed_input >>

\* a mismatch lets on_start return with self.passed = False
OnMismatch_Retry == [does |-> "return", status |-> 0, cause |-> "typed_wrong"]

\* the else branch of on_start: "time.sleep(3)", "exit()"
OnMismatch == [does |-> "exit", status |-> 0, cause |-> "typed_wrong"]

\* "if words_typed == split_phrase: self.passed = True", else the else branch
TypingCompare ==
    /\ UNCHANGED math
    /\ pc = "compare"
    /\ \E words_typed \in {words(completed_input)},
          split_phrase \in {words(selection.phrase)} :
          IF words_typed = split_phrase
          THEN /\ passed' = TRUE
               /\ pc' = "poll"
               /\ UNCHANGED << challenges, idx, password, attempts_remaining,
                               exit_status, exit_cause, ret, hooks, altar, writes,
                               passwordVars >>
          ELSE IF OnMismatch.does = "exit"
          THEN /\ Exit(OnMismatch.status, OnMismatch.cause)
               /\ UNCHANGED passed
          ELSE /\ passed' = FALSE
               /\ pc' = "poll"
               /\ UNCHANGED << challenges, idx, password, attempts_remaining,
                               exit_status, exit_cause, ret, hooks, altar, writes,
                               passwordVars >>
    /\ interrupted' = FALSE
    /\ UNCHANGED << winner_opened, entries, entered_pass, remote_calls, response,
                    selection, timer, completed_input >>

\* ChallengeSpeedTyping.is_completed: "return self.passed"
TypingPoll ==
    /\ UNCHANGED math
    /\ pc = "poll"
    /\ Kind = "ChallengeSpeedTyping"
    /\ ret' = IF passed THEN "True" ELSE "False"
    /\ pc' = "returned"
    /\ interrupted' = FALSE
    /\ UNCHANGED << challenges, idx, password, attempts_remaining, winner_opened,
                    exit_status, exit_cause, hooks, entries, entered_pass, altar,
                    writes, passwordVars, remote_calls, response, typingVars, math >>

(***************************************************************************)
(* ChallengeIntro.is_completed.                                            *)
(***************************************************************************)
MUNCHIES ==
    <<"m", "u", "n", "c", "h", "i", "e", "s", ".", "t", "x", "t">>

\* the names a folder of the intro and typing challenges may hold
TrialNames == {DESKTOP_INI, MUNCHIES, TextName}

\* what the player may save there
TrialPool ==
    { [name |-> MUNCHIES, text |-> ShortText, readable |-> TRUE],
      [name |-> TextName, text |-> ShortText, readable |-> TRUE] }

\* p.is_file(): the entry exists and is no directory
is_file(f) == f.exists /\ "dir" \notin DOMAIN f

\* the player makes a directory of this name
PlayerMkdir(n) ==
    /\ Running
    /\ writes < MaxWrites
    /\ n # DESKTOP_INI
    /\ ~altar[n].exists
    /\ writes' = writes + 1
    /\ altar' = [altar EXCEPT ![n] =
                    [exists |-> TRUE, readable |-> FALSE, text |-> <<>>,
                     mtime |-> writes + 1, dir |-> TRUE]]
    /\ UNCHANGED << runnerVars, passwordVars, remote_calls, interrupted, response,
                    typingVars, math >>

\* the removal without the test for desktop.ini
IntroRemoves_AnyName(name, file) ==
    /\ ~(name = MUNCHIES /\ is_file(file))
    /\ is_file(file)

\* "elif p.is_file(): os.remove(p)", reached for an entry that is neither
\* desktop.ini nor the file munchies.txt
IntroRemoves(name, file) ==
    /\ name # DESKTOP_INI
    /\ ~(name = MUNCHIES /\ is_file(file))
    /\ is_file(file)

\* ChallengeIntro.is_completed on the folder dir, when iterdir() yields the
\* entries of before ahead of munchies.txt: what it returns and the folder
\* it leaves
intro_is_completed(dir, before) ==
    LET found   == dir[MUNCHIES].exists /\ is_file(dir[MUNCHIES])
        visited == IF found THEN before ELSE DOMAIN dir
        removed == {n \in visited : dir[n].exists /\ IntroRemoves(n, dir[n])}
    IN  [ret   |-> IF found THEN "True" ELSE "False",
         altar |-> [n \in DOMAIN dir |-> IF n \in removed THEN NoFile ELSE dir[n]]]

\* run calls ChallengeIntro.is_completed
IntroPoll ==
    /\ pc = "poll"
    /\ Kind = "ChallengeIntro"
    /\ \E before \in SUBSET (iterdir \ {MUNCHIES}) :
       \E result \in {intro_is_completed(altar, before)} :
          /\ ret' = result.ret
          /\ altar' = result.altar
    /\ pc' = "returned"
    /\ interrupted' = FALSE
    /\ UNCHANGED << challenges, idx, password, attempts_remaining, winner_opened,
                    exit_status, exit_cause, hooks, entries, entered_pass, writes,
                    passwordVars, remote_calls, response, typingVars, math >>

(***************************************************************************)
(* ChallengeMathAnswer.                                                    *)
(***************************************************************************)
\* the defaults of __init__: r.randint(0,3000), r.randint(0,1000) and
\* r.randint(0,1000), drawn once when the class is defined
MathMaxA == 3000
MathMaxB == 1000
MathMaxC == 1000

\* the triples (a, b, c) followed here, the ends of each range among them
MathDraws ==
    { [a |-> a, b |-> b, c |-> c, correct_answer |-> <<>>] :
        a \in {0, 1, 7, MathMaxA}, b \in {0, 3, MathMaxB}, c \in {0, 1, 2, 7, MathMaxC} }

\* str(n) of an int n >= 0: its decimal digits, the most significant first
RECURSIVE str(_)
str(n) ==
    IF n < 10 THEN <<DecimalDigits[n + 1]>>
    ELSE Append(str(n \div 10), DecimalDigits[(n % 10) + 1])

\* main builds the challenge list: ChallengeMathAnswer.__init__ sets
\* "self.correct_answer = str(self.a * self.b // self.c)"; the division by
\* zero raises ZeroDivisionError, which nothing catches
MathConstruct ==
    /\ pc = "construct"
    /\ IF math.c = 0
       THEN /\ Crash("ZeroDivisionError")
            /\ UNCHANGED math
       ELSE /\ math' = [math EXCEPT !.correct_answer = str((math.a * math.b) \div math.c)]
            /\ pc' = "on_start"
            /\ UNCHANGED << challenges, idx, password, attempts_remaining, exit_status,
                            exit_cause, ret, hooks, altar, writes, passwordVars >>
    /\ interrupted' = FALSE
    /\ UNCHANGED << winner_opened, entries, entered_pass, remote_calls, response,
                    typingVars >>

\* what the player may save for the math challenge
MathPool ==
    { [name |-> TextName, text |-> <<"2", "1">>, readable |-> TRUE],
      [name |-> TextName, text |-> <<" ", "4", "2", "8", "5", "7", "1", "\n">>,
       readable |-> TRUE],
      [name |-> TextName, text |-> <<"0">>, readable |-> TRUE],
      [name |-> ImageName, text |-> <<"0">>, readable |-> TRUE] }

\* ChallengeMathAnswer.is_completed on the folder dir: True when a regular
\* file with the suffix .txt can be read and holds correct_answer somewhere
\* in its stripped text; a file that cannot be read is passed over
math_is_completed(dir, answer) ==
    \E n \in DOMAIN dir :
        /\ dir[n].exists
        /\ lower(suffix(n)) = <<".", "t", "x", "t">>
        /\ is_file(dir[n])
        /\ dir[n].readable
        /\ Contains(answer, strip(dir[n].text))

\* run calls ChallengeMathAnswer.is_completed
MathPoll ==
    /\ pc = "poll"
    /\ Kind = "ChallengeMathAnswer"
    /\ ret' = IF math_is_completed(altar, math.correct_answer) THEN "True" ELSE "False"
    /\ pc' = "returned"
    /\ interrupted' = FALSE
    /\ UNCHANGED << challenges, idx, password, attempts_remaining, winner_opened,
                    exit_status, exit_cause, hooks, entries, entered_pass, altar, writes,
                    passwordVars, remote_calls, response, typingVars, math >>

(***************************************************************************)
(* ChallengeFeedPDF.                                                       *)
(***************************************************************************)
PdfName == <<"f", ".", "p", "d", "f">>

\* what the player may save for the PDF challenge
PdfPool ==
    { [name |-> PdfName, text |-> <<"P", "D", "F">>, readable |-> TRUE],
      [name |-> TextName, text |-> ShortText, readable |-> TRUE] }

\* what reading a PDF can come to: more than MIN_PAGES pages with "chicken"
\* on page 8, enough pages without it, too few pages, an exception of
\* PdfReader, or no PyPDF2 at all
PdfReadings == {"chicken", "no_chicken", "meager", "error", "no_pypdf2"}

\* run calls ChallengeFeedPDF.is_completed: a regular file with the suffix
\* .pdf is read; it completes the challenge, is removed, or is left
PdfPoll ==
    /\ pc = "poll"
    /\ Kind = "ChallengeFeedPDF"
    /\ \E pdfs \in {{n \in iterdir : lower(suffix(n)) = <<".", "p", "d", "f">>
                                      /\ is_file(altar[n])}} :
          IF pdfs = {}
          THEN ret' = "False" /\ UNCHANGED altar
          ELSE \E reading \in PdfReadings :
                  /\ ret' = IF reading = "chicken" THEN "True" ELSE "False"
                  /\ altar' = [n \in DOMAIN altar |->
                                  IF n \in pdfs /\ reading \in {"no_chicken", "meager"}
                                  THEN NoFile ELSE altar[n]]
    /\ pc' = "returned"
    /\ interrupted' = FALSE
    /\ UNCHANGED << challenges, idx, password, attempts_remaining, winner_opened,
                    exit_status, exit_cause, hooks, entries, entered_pass, writes,
                    passwordVars, remote_calls, response, typingVars, math >>

(***************************************************************************)
(* ChallengeRunner._clear_altar_contents.                                  *)
(***************************************************************************)
\* "if p.is_file(): if p.name != 'desktop.ini': p.unlink()" and
\* "elif p.is_dir(): shutil.rmtree(p)"
ClearRemoves(name, file) ==
    \/ is_file(file) /\ name # DESKTOP_INI
    \/ file.exists /\ ~is_file(file)

\* the optional utility, taken where run names it (line 827, after a
\* challenge's on_complete)
ClearAltar ==
    /\ Running
    /\ idx > 1
    /\ pc \in {"on_start", "gate"}
    /\ \E n \in DOMAIN altar : altar[n].exists /\ ClearRemoves(n, altar[n])
    /\ altar' = [n \in DOMAIN altar |->
                    IF altar[n].exists /\ ClearRemoves(n, altar[n]) THEN NoFile
                    ELSE altar[n]]
    /\ UNCHANGED << runnerVars, writes, passwordVars, remote_calls, interrupted,
                    response, typingVars, math >>

(***************************************************************************)
(* KeyboardInterrupt.                                                      *)
(***************************************************************************)
\* Ctrl+C raises KeyboardInterrupt in the main thread, wherever it is:
\*   - in on_start (timedinput and the comparison of ChallengeSpeedTyping
\*     included) or the lines around it nothing catches it;
\*   - in the polling loop "except KeyboardInterrupt: sys.exit(0)" catches it,
\*     but within evaluate_rules the bare "except: continue" of is_completed
\*     catches it first (taken here at the first read of the file);
\*   - at the gate "except KeyboardInterrupt: continue" asks again.
Interrupt ==
    /\ Running
    /\ interrupted' = TRUE
    /\ response' = NoResponse
    /\ UNCHANGED << typingVars, math >>
    /\ CASE pc \in {"construct", "on_start", "input", "cancel", "compare"} ->
              \E status \in UncaughtInterruptStatus : Exit(status, "KeyboardInterrupt")
         [] pc = "gate" ->
              /\ GateLoopCond(attempts_remaining)
              /\ UNCHANGED << challenges, idx, pc, password, attempts_remaining,
                              exit_status, exit_cause, ret, hooks, altar, writes,
                              passwordVars >>
         [] pc = "in_call" /\ ppc = "eval" ->
              \/ Exit(0, "interrupted")
              \/ /\ ppc' = "iter"
                 /\ UNCHANGED << challenges, idx, pc, password, attempts_remaining,
                                 exit_status, exit_cause, ret, hooks, altar, writes,
                                 requirements, successful_password, listing, p,
                                 mod_time, skip_await, matches, evaluated >>
         [] OTHER ->
              Exit(0, "interrupted")
    /\ UNCHANGED << winner_opened, entries, entered_pass, remote_calls >>

(***************************************************************************)
(* The specification.                                                      *)
(***************************************************************************)
Next ==
    \/ OnStart
    \/ RunnerComplete
    \/ RunnerSleep
    \/ \E typed \in GateEntries : GateEntry(typed)
    \/ GateExhausted
    \/ PwCall
    \/ PwIter
    \/ PwReturnNone
    \/ PwAwaitStart
    \/ PwAwaitPoll
    \/ PwRead
    \/ PwEvaluate
    \/ PwCapture
    \/ ReindeerNoFile
    \/ ReindeerWrongType
    \/ ReindeerImage
    \/ Interrupt
    \/ \E f \in FilePool : PlayerWrite(f)
    \/ \E n \in Names : PlayerRemove(n)

Spec == Init /\ [][Next]_vars

(***************************************************************************)
(* The specification of a session made of the intro and typing challenges. *)
(***************************************************************************)
TrialKinds == {"ChallengeIntro", "ChallengeSpeedTyping"}

\* the lists main() can build from them: each challenge object at most once
TrialLists ==
    { l \in UNION {[1..n -> TrialKinds] : n \in 1..MaxChallenges} :
        \A i, j \in DOMAIN l : i # j => l[i] # l[j] }

InitTrials ==
    /\ challenges \in TrialLists
    /\ idx = 1
    /\ pc = "on_start"
    /\ password = InitPassword
    /\ attempts_remaining = InitAttempts
    /\ winner_opened = FALSE
    /\ exit_status = -1
    /\ exit_cause = "running"
    /\ ret = "None"
    /\ hooks = <<>>
    /\ \E f \in TrialPool \cup {NoFile} :
          altar = [n \in TrialNames |->
                     IF n = DESKTOP_INI
                     THEN [exists |-> TRUE, readable |-> TRUE, text |-> <<>>, mtime |-> 0]
                     ELSE IF f # NoFile /\ f.name = n
                          THEN [exists |-> TRUE, readable |-> f.readable,
                                text |-> f.text, mtime |-> 0]
                          ELSE NoFile]
    /\ writes = 0
    /\ requirements = InitRequirements
    /\ successful_password = InitSuccessfulPassword
    /\ ppc = "idle"
    /\ listing = {}
    /\ p = <<>>
    /\ mod_time = 0
    /\ skip_await = FALSE
    /\ matches = <<>>
    /\ evaluated = NotEvaluated
    /\ remote_calls = 0
    /\ interrupted = FALSE
    /\ entries = 0
    /\ entered_pass = <<>>
    /\ response = NoResponse
    /\ IF \E k \in DOMAIN challenges : challenges[k] = "ChallengeSpeedTyping"
       THEN selection \in phrases
       ELSE selection = NoSelection
    /\ passed = FALSE
    /\ timer = "idle"
    /\ completed_input = <<>>
    /\ math = NoMath

NextTrials ==
    \/ OnStart
    \/ TypingStart
    \/ TimesUp
    \/ \E typed \in TypedInputs : TypingInput(typed)
    \/ TypingCancel
    \/ TypingCompare
    \/ TypingPoll
    \/ IntroPoll
    \/ RunnerComplete
    \/ RunnerSleep
    \/ \E typed \in GateEntries : GateEntry(typed)
    \/ GateExhausted
    \/ Interrupt
    \/ \E f \in TrialPool : PlayerWrite(f)
    \/ \E n \in TrialNames : PlayerMkdir(n)
    \/ \E n \in TrialNames : PlayerRemove(n)

SpecTrials == InitTrials /\ [][NextTrials]_vars

(***************************************************************************)
(* The specification of evaluate_rules alone: one candidate file on the    *)
(* altar, read and evaluated once by ChallengePasswordGame.is_completed.   *)
(***************************************************************************)
\* the texts of the candidate files
RuleTexts ==
    { GoodText, BlankFirstText,
      <<"d", "a", "s", "h", "e", "r">>,
      <<"D", "a", "s", "h", "e", "r">>,
      <<"D", "A", "S", "H", "E", "R">>,
      <<"d", "a", "n", "c", "e", "r">>,
      <<"P", "r", "a", "n", "c", "e", "r">>,
      <<"V", "I", "X", "E", "N">>,
      <<"v", "i", "x", "e", "n">>,
      <<"C", "o", "m", "e", "t">>,
      <<"c", "u", "p", "i", "d">>,
      <<"d", "o", "n", "n", "e", "r">>,
      <<"B", "l", "i", "t", "z", "e", "n">>,
      <<"r", "u", "d", "o", "l", "p", "h">>,
      <<"R", "u", "d", "o", "l", "p", "h">>,
      <<"x", "d", "a", "s", "h", "e", "r">>,
      <<"d", "a", "s", "h">>,
      <<"V", "i", "x">>,
      <<"I">>,
      <<"i">>,
      <<"V">>,
      <<"v">>,
      <<"X">>,
      <<"x">>,
      <<"L">>,
      <<"l">>,
      <<"C">>,
      <<"c">>,
      <<"D">>,
      <<"d">>,
      <<"M">>,
      <<"m">>,
      <<"I", "X">>,
      <<"i", "x">>,
      <<"a", "I">>,
      <<"m", "i", "x">>,
      <<"L", "a", "m", "p">>,
      <<"9", "9", "7", "9">>,
      <<"a", "7", "k", "9", "i", "9">>,
      <<"9", "9", "7">>,
      <<"5", "5", "5", "5", "5">>,
      <<"0">>,
      <<"7", "9", "0", "0", "0", "9">>,
      <<"2", "5">>,
      <<>>,
      <<"7", " ", "9", " ", "9", "\n">>,
      <<"a", "7", "k", "9", "i", "9", "0">>,
      <<"d", "e", "c", "e", "m", "b", "e", "r">>,
      <<"r", "e", "b", "m", "a", "c", "e", "d">>,
      <<"l", "e", "v", "e", "l">>,
      <<"d", "e", "c", "e", "m", "b", "e", "r", "\n">>,
      <<" ", "d", "e", "c", "e", "m", "b", "e", "r">>,
      <<"a", "b", "c">>,
      <<"a", "b", "c", "a", "b", "c">>,
      <<"a", "b", "c", "d", "e", "f", "g">>,
      <<"a", "b", "b", "a">>,
      <<"a", "A">>,
      <<"a", "a", "b", "b", "a", "a">>,
      <<"x", "y", "z", "z", "y", "x", " ", "y">> }

\* the names of the candidate files
RuleNames ==
    { ReversedName,
      <<"d", "e", "c", "e", "m", "b", "e", "r", ".", "t", "x", "t">>,
      <<"r", "e", "b", "m", "a", "c", "e", "d", ".", "t", "x", "t">>,
      <<"l", "e", "v", "e", "l", ".", "t", "x", "t">>,
      <<"a", "7", "k", "9", "i", "9">>,
      <<"9", "9", "7", "9", ".", "t", "x", "t">>,
      <<"a", "b", "c", ".", "t", "x", "t">>,
      <<"c", "b", "a">>,
      <<"D", "a", "s", "h", "e", "r", ".", "t", "x", "t">> }

\* the candidate files: every name with every text
Candidates == {[name |-> n, text |-> t] : n \in RuleNames, t \in RuleTexts}

\* the password game is the only challenge; is_completed has listed the altar,
\* picked the candidate and seen its modification time change
InitRules ==
    /\ challenges = <<"ChallengePasswordGame">>
    /\ idx = 1
    /\ pc = "in_call"
    /\ password = InitPassword
    /\ attempts_remaining = InitAttempts
    /\ winner_opened = FALSE
    /\ exit_status = -1
    /\ exit_cause = "running"
    /\ ret = "None"
    /\ hooks = <<HookCall("on_start", 1, FALSE)>>
    /\ \E c \in Candidates :
          /\ altar = [n \in RuleNames |->
                        IF n = c.name
                        THEN [exists |-> TRUE, readable |-> TRUE, text |-> c.text,
                              mtime |-> 1]
                        ELSE NoFile]
          /\ p = c.name
    /\ writes = 1
    /\ requirements = InitRequirements
    /\ successful_password = InitSuccessfulPassword
    /\ ppc = "read"
    /\ listing = {}
    /\ mod_time = 0
    /\ skip_await = FALSE
    /\ matches = <<>>
    /\ evaluated = NotEvaluated
    /\ remote_calls = 0
    /\ interrupted = FALSE
    /\ entries = 0
    /\ entered_pass = <<>>
    /\ response = NoResponse
    /\ selection = NoSelection
    /\ passed = FALSE
    /\ timer = "idle"
    /\ completed_input = <<>>
    /\ math = NoMath

NextRules ==
    \/ PwRead
    \/ PwEvaluate
    \/ PwCapture

SpecRules == InitRules /\ [][NextRules]_vars

(***************************************************************************)
(* The specification of a session of one challenge that reads the altar,   *)
(* with the altar purge.                                                   *)
(***************************************************************************)
AltarKinds == {"ChallengeIntro", "ChallengeMathAnswer", "ChallengeFeedReindeerImage",
               "ChallengePasswordGame", "ChallengeFeedPDF"}

AltarNames == Names \cup {MUNCHIES, PdfName}

\* what the player may save, by the challenge of the session
AltarPool ==
    CASE challenges[1] = "ChallengeIntro"      -> TrialPool
      [] challenges[1] = "ChallengeMathAnswer" -> MathPool
      [] challenges[1] = "ChallengeFeedPDF"    -> PdfPool
      [] OTHER                                 -> FilePool

\* the math challenge of such a session asks for 7 * 3 / 1
MathSeven == [a |-> 7, b |-> 3, c |-> 1, correct_answer |-> str(21)]

InitAltar ==
    /\ challenges \in {<<k>> : k \in AltarKinds}
    /\ math = IF challenges[1] = "ChallengeMathAnswer" THEN MathSeven ELSE NoMath
    /\ idx = 1
    /\ pc = "on_start"
    /\ password = InitPassword
    /\ attempts_remaining = InitAttempts
    /\ winner_opened = FALSE
    /\ exit_status = -1
    /\ exit_cause = "running"
    /\ ret = "None"
    /\ hooks = <<>>
    /\ \E f \in AltarPool \cup {NoFile} :
          altar = [n \in AltarNames |->
                     IF n = DESKTOP_INI
                     THEN [exists |-> TRUE, readable |-> TRUE, text |-> <<>>, mtime |-> 0]
                     ELSE IF f # NoFile /\ f.name = n
                          THEN [exists |-> TRUE, readable |-> f.readable,
                                text |-> f.text, mtime |-> 0]
                          ELSE NoFile]
    /\ writes = 0
    /\ requirements = InitRequirements
    /\ successful_password = InitSuccessfulPassword
    /\ ppc = "idle"
    /\ listing = {}
    /\ p = <<>>
    /\ mod_time = 0
    /\ skip_await = FALSE
    /\ matches = <<>>
    /\ evaluated = NotEvaluated
    /\ remote_calls = 0
    /\ interrupted = FALSE
    /\ entries = 0
    /\ entered_pass = <<>>
    /\ response = NoResponse
    /\ selection = NoSelection
    /\ passed = FALSE
    /\ timer = "idle"
    /\ completed_input = <<>>

NextAltar ==
    \/ OnStart
    \/ RunnerComplete
    \/ RunnerSleep
    \/ \E typed \in GateEntries : GateEntry(typed)
    \/ GateExhausted
    \/ PwCall
    \/ PwIter
    \/ PwReturnNone
    \/ PwAwaitStart
    \/ PwAwaitPoll
    \/ PwRead
    \/ PwEvaluate
    \/ PwCapture
    \/ ReindeerNoFile
    \/ ReindeerWrongType
    \/ ReindeerImage
    \/ IntroPoll
    \/ MathPoll
    \/ PdfPoll
    \/ ClearAltar
    \/ Interrupt
    \/ \E f \in AltarPool : PlayerWrite(f)
    \/ \E n \in AltarNames : PlayerRemove(n)

SpecAltar == InitAltar /\ [][NextAltar]_vars

(***************************************************************************)
(* The specification of a session of the math challenge, from the          *)
(* construction of the challenge on.                                       *)
(***************************************************************************)
InitMath ==
    /\ challenges = <<"ChallengeMathAnswer">>
    /\ math \in MathDraws
    /\ idx = 1
    /\ pc = "construct"
    /\ password = InitPassword
    /\ attempts_remaining = InitAttempts
    /\ winner_opened = FALSE
    /\ exit_status = -1
    /\ exit_cause = "running"
    /\ ret = "None"
    /\ hooks = <<>>
    /\ altar = [n \in {DESKTOP_INI, TextName, ImageName} |->
                  IF n = DESKTOP_INI
                  THEN [exists |-> TRUE, readable |-> TRUE, text |-> <<>>, mtime |-> 0]
                  ELSE NoFile]
    /\ writes = 0
    /\ requirements = InitRequirements
    /\ successful_password = InitSuccessfulPassword
    /\ ppc = "idle"
    /\ listing = {}
    /\ p = <<>>
    /\ mod_time = 0
    /\ skip_await = FALSE
    /\ matches = <<>>
    /\ evaluated = NotEvaluated
    /\ remote_calls = 0
    /\ interrupted = FALSE
    /\ entries = 0
    /\ entered_pass = <<>>
    /\ response = NoResponse
    /\ selection = NoSelection
    /\ passed = FALSE
    /\ timer = "idle"
    /\ completed_input = <<>>

NextMath ==
    \/ MathConstruct
    \/ OnStart
    \/ MathPoll
    \/ RunnerComplete
    \/ RunnerSleep
    \/ \E typed \in GateEntries : GateEntry(typed)
    \/ GateExhausted
    \/ Interrupt
    \/ \E f \in MathPool : PlayerWrite(f)
    \/ \E n \in {TextName, ImageName} : PlayerRemove(n)

SpecMath == InitMath /\ [][NextMath]_vars

(***************************************************************************)
(* The specification of the reindeer challenge polled without end: the     *)
(* altar always holds deer.png, which the classifier takes for a reindeer, *)
(* and the player puts other files beside it.                              *)
(***************************************************************************)
CatName == <<"c", "a", "t", ".", "j", "p", "g">>

LiveNames == {DESKTOP_INI, ImageName, CatName, TextName}

\* the files the player puts beside deer.png
LivePool ==
    { [name |-> CatName, text |-> <<"J", "P", "G">>, readable |-> TRUE],
      [name |-> TextName, text |-> ShortText, readable |-> TRUE] }

\* the classifier's answer for an image: "yes" for deer.png's picture, "no"
\* for any other
Eyeballs(file) ==
    [kind |-> "text",
     text |-> IF file.text = ImageText THEN <<"y", "e", "s">> ELSE <<"n", "o">>]

\* is_completed meets an image first and the classifier answers for it
ReindeerAnswered == \E q \in DOMAIN altar : ReindeerLook(q, Eyeballs(altar[q]))

InitLive ==
    /\ challenges = <<"ChallengeFeedReindeerImage">>
    /\ idx = 1
    /\ pc = "on_start"
    /\ password = InitPassword
    /\ attempts_remaining = InitAttempts
    /\ winner_opened = FALSE
    /\ exit_status = -1
    /\ exit_cause = "running"
    /\ ret = "None"
    /\ hooks = <<>>
    /\ \E beside \in SUBSET LivePool :
          altar = [n \in LiveNames |->
                     IF n = DESKTOP_INI
                     THEN [exists |-> TRUE, readable |-> TRUE, text |-> <<>>, mtime |-> 0]
                     ELSE IF n = ImageName
                     THEN [exists |-> TRUE, readable |-> TRUE, text |-> ImageText,
                           mtime |-> 0]
                     ELSE IF \E f \in beside : f.name = n
                     THEN [exists |-> TRUE, readable |-> TRUE,
                           text |-> (CHOOSE f \in beside : f.name = n).text, mtime |-> 0]
                     ELSE NoFile]
    /\ writes = 0
    /\ requirements = InitRequirements
    /\ successful_password = InitSuccessfulPassword
    /\ ppc = "idle"
    /\ listing = {}
    /\ p = <<>>
    /\ mod_time = 0
    /\ skip_await = FALSE
    /\ matches = <<>>
    /\ evaluated = NotEvaluated
    /\ remote_calls = 0
    /\ interrupted = FALSE
    /\ entries = 0
    /\ entered_pass = <<>>
    /\ response = NoResponse
    /\ selection = NoSelection
    /\ passed = FALSE
    /\ timer = "idle"
    /\ completed_input = <<>>
    /\ math = NoMath

NextLive ==
    \/ OnStart
    \/ ReindeerWrongType
    \/ ReindeerAnswered
    \/ RunnerComplete
    \/ RunnerSleep
    \/ \E typed \in GateEntries : GateEntry(typed)
    \/ GateExhausted
    \/ \E f \in LivePool : PlayerWrite(f)
    \/ \E n \in {CatName, TextName} : PlayerRemove(n)

\* run goes on: every step of the main thread that can be taken is taken
FairnessLive ==
    /\ WF_vars(OnStart)
    /\ WF_vars(ReindeerWrongType)
    /\ WF_vars(ReindeerAnswered)
    /\ WF_vars(RunnerComplete)
    /\ WF_vars(RunnerSleep)

SpecLive == InitLive /\ [][NextLive]_vars /\ FairnessLive

(***************************************************************************)
(* Properties of ChallengeRunner.run's loop over the challenges.           *)
(***************************************************************************)
\* C1: the challenges run one at a time in list order: the on_start calls are
\* made in the order of the list, and on_start of challenge k+1 is never called
\* before an is_completed call of challenge k has returned a true value
C1_SequentialOrder ==
    \A n \in DOMAIN hooks :
        hooks[n].hook = "on_start" =>
            /\ \A m \in 1..(n - 1) :
                  hooks[m].hook = "on_start" => hooks[m].k < hooks[n].k
            /\ hooks[n].k > 1 =>
                  \E m \in 1..(n - 1) :
                      hooks[m] = HookCall("is_completed", hooks[n].k - 1, TRUE)

\* the second challenge has been started
C1_Witness ==
    \E n \in DOMAIN hooks : hooks[n] = HookCall("on_start", 2, FALSE)

\* C2: for each challenge, on_start is called once and before any is_completed
\* call, on_complete is called once and directly after the first is_completed
\* call that returned a true value, and is_completed is not called again after
\* that (NOT_STARTED -> RUNNING -> COMPLETED, no step back)
C2_HookLifecycle ==
    /\ \A n, m \in DOMAIN hooks :
          (n # m /\ hooks[n].k = hooks[m].k /\ hooks[n].hook = hooks[m].hook)
              => (hooks[n].hook = "is_completed" /\ hooks[n].result # hooks[m].result)
    /\ \A n \in DOMAIN hooks :
          /\ hooks[n].hook = "on_start" =>
                \A m \in 1..(n - 1) : hooks[m].k # hooks[n].k
          /\ hooks[n].hook = "is_completed" =>
                /\ n > 1
                /\ hooks[n - 1].k = hooks[n].k
                /\ \/ hooks[n - 1].hook = "on_start"
                   \/ hooks[n - 1].hook = "is_completed" /\ ~hooks[n - 1].result
          /\ hooks[n].hook = "on_complete" =>
                /\ n > 1
                /\ hooks[n - 1] = HookCall("is_completed", hooks[n].k, TRUE)
                /\ \A m \in (n + 1)..Len(hooks) : hooks[m].k # hooks[n].k
          /\ (hooks[n].hook = "is_completed" /\ hooks[n].result) =>
                /\ n < Len(hooks)
                /\ hooks[n + 1] = HookCall("on_complete", hooks[n].k, FALSE)
    /\ pc \in {"poll", "in_call", "returned"} =>
          /\ hooks # <<>>
          /\ hooks[Len(hooks)].k = idx
          /\ hooks[Len(hooks)].hook # "on_complete"
    /\ pc = "on_start" =>
          \A n \in DOMAIN hooks : hooks[n].k < idx

\* a challenge was polled without success, then with success, and completed
C2_Witness ==
    \E n \in DOMAIN hooks :
        /\ n + 3 <= Len(hooks)
        /\ hooks[n] = HookCall("on_start", 1, FALSE)
        /\ hooks[n + 1] = HookCall("is_completed", 1, FALSE)
        /\ hooks[n + 2] = HookCall("is_completed", 1, TRUE)
        /\ hooks[n + 3] = HookCall("on_complete", 1, FALSE)

(***************************************************************************)
(* Properties of the password game.                                        *)
(***************************************************************************)
\* what evaluate_rules gives when a new ChallengePasswordGame runs it on the
\* file of this name and text
FreshEvaluation(name, text) == evaluate_rules(InitRequirements, name, text)

\* the rules an evaluation found met
PassedRules(req) == {i \in Rules : req[i].passed}

\* C3: the walk over the rules makes rule i+1 visible only if, in the same
\* evaluation, every rule up to rule i is visible and passed; so nothing after
\* the first rule that is visible and failed is revealed
C3_DisclosureGating ==
    [][\A i \in 1..(NUM_RULES - 1) :
          (~requirements[i + 1].shown /\ requirements'[i + 1].shown) =>
              \A j \in 1..i : requirements'[j].shown /\ requirements'[j].passed]_vars

\* an evaluation has revealed the rules up to the first one its candidate
\* fails, and none after it
C3_Witness ==
    /\ evaluated.done
    /\ \E i \in 2..(NUM_RULES - 1) :
          /\ requirements[i].shown
          /\ ~requirements[i].passed
          /\ ~requirements[i + 1].shown

\* C4: is_completed reports success for the candidate it evaluated if and only
\* if the candidate passes all twelve rules, whatever was visible before
C4_SuccessIffAllRulesPass ==
    evaluated.done =>
        \A fresh \in {FreshEvaluation(evaluated.name, evaluated.text)} :
            /\ (ppc = "capture" \/ (pc = "returned" /\ bool(ret)))
                  <=> PassedRules(requirements) = Rules
            /\ PassedRules(requirements) = Rules
                  <=> PassedRules(fresh.requirements) = Rules

\* the first candidate a new game evaluates succeeds, when only the first rule
\* had been shown
C4_Witness ==
    /\ evaluated.done
    /\ ppc = "capture"
    /\ writes = 1
    /\ PassedRules(requirements) = Rules

\* C5: after evaluate_rules the passed flag of every rule and every piece of
\* evidence depend on the candidate's name and content only: they are what a
\* new game finds for that candidate, whatever was evaluated before
C5_EvaluationDependsOnCandidateOnly ==
    evaluated.done =>
        \A fresh \in {FreshEvaluation(evaluated.name, evaluated.text)} :
            /\ PassedRules(requirements) = PassedRules(fresh.requirements)
            /\ matches = fresh.matches

\* a candidate that fails the first rule is evaluated after one that had
\* passed it
C5_Witness ==
    /\ evaluated.done
    /\ evaluated.text = ShortText
    /\ requirements[3].shown
    /\ ~requirements[RULE_MIN_LENGTH].passed

\* C6: when the password game completes, the payload on_complete returns is the
\* accepted file's content with the surrounding whitespace trimmed, and it is
\* the secret the gate compares the entries against
C6_PayloadIsAcceptedContent ==
    /\ (pc = "returned" /\ bool(ret) /\ Kind = "ChallengePasswordGame") =>
          /\ evaluated.done
          /\ ~on_complete(Kind).none
          /\ on_complete(Kind).value = strip(evaluated.text)
    /\ (pc = "gate" /\ \E k \in DOMAIN challenges : challenges[k] = "ChallengePasswordGame") =>
          password = successful_password

(***************************************************************************)
(* Properties of the password gate.                                        *)
(***************************************************************************)
\* C7: the gate is reached once every challenge has completed and takes at most
\* InitAttempts + 1 entries: an entry equal to the secret opens the winner page
\* and ends the session with status 0, any other entry uses up one attempt, and
\* the session ends without the winner page once InitAttempts + 1 wrong entries
\* were made
C7_GateAttempts ==
    [][/\ pc = "gate" =>
             /\ entries = InitAttempts - attempts_remaining
             /\ \A k \in DOMAIN challenges :
                   \E n \in DOMAIN hooks : hooks[n] = HookCall("on_complete", k, FALSE)
       /\ entries' # entries =>
             /\ pc = "gate"
             /\ entries' = entries + 1
             /\ entries' <= InitAttempts + 1
             /\ IF entered_pass' = password
                THEN winner_opened' /\ pc' = "exit" /\ exit_status' = 0
                ELSE /\ ~winner_opened' /\ pc' = "gate"
                     /\ attempts_remaining' = attempts_remaining - 1
       /\ (pc # "exit" /\ pc' = "exit" /\ exit_cause' = "attempts_exhausted") =>
             /\ pc = "gate"
             /\ entries = InitAttempts + 1
             /\ ~winner_opened'
       /\ (winner_opened' /\ ~winner_opened) => entries' # entries
       /\ ~winner_opened]_vars

\* the session has ended after four wrong entries, the winner page unopened
C7_Witness ==
    /\ pc = "exit"
    /\ exit_cause = "attempts_exhausted"
    /\ entries = InitAttempts + 1
    /\ ~winner_opened

(***************************************************************************)
(* Properties of the classifier, of interrupts and of unreadable files.    *)
(***************************************************************************)
\* C8: once more calls than the query budget were made while the reindeer
\* challenge is polled, the next call is rejected without contacting the
\* remote service
C8_BudgetRejectsNextCall ==
    remote_calls <= QueryBudget + 1

\* C9: a KeyboardInterrupt at any point of the session ends the process at
\* once with status 0
C9_InterruptExitsZero ==
    interrupted => (pc = "exit" /\ exit_status = 0)

\* C10: a candidate that cannot be read or decoded never makes an exception
\* escape is_completed
C10_UnreadableCandidateSkipped ==
    ~(pc = "exit" /\ exit_cause = "unreadable_candidate")

\* C11: a remote classifier error other than a rate-limit error (an APIError
\* with a code other than 429 included) is caught: the call counts as a
\* non-match, is_completed returns false and no exception escapes
C11_RemoteErrorIsNonMatch ==
    response.kind \in {"api_error", "exception"} =>
        (pc = "returned" /\ ~bool(ret))

\* C16: the reindeer challenge reports completed only when the text of the
\* classifier's response begins with y or Y; for a response that begins with
\* another character, is empty or has no text, is_completed returns false
\* without raising
C16_CompletedOnlyOnYes ==
    response.kind \in {"text", "no_text"} =>
        /\ pc = "returned"
        /\ bool(ret) <=> /\ response.kind = "text"
                         /\ response.text # <<>>
                         /\ response.text[1] \in {"y", "Y"}

\* is_completed has returned false for a response that begins with neither y
\* nor n
C16_Witness ==
    /\ pc = "returned"
    /\ ~bool(ret)
    /\ response = [kind |-> "text", text |-> <<"m", "a", "y", "b", "e">>]

\* C17: if the file the password game waits on or is about to read disappears
\* from the altar, no exception escapes is_completed
C17_DisappearanceIsTransient ==
    ~(pc = "exit" /\ exit_cause = "FileNotFoundError")

(***************************************************************************)
(* Properties of the typing challenge and of the intro challenge.          *)
(***************************************************************************)
\* C12: in the typing challenge a mismatch between the typed words and the
\* words of the phrase ends the session at once: on_start does not return, so
\* is_completed is not polled for the challenge, no later challenge and no
\* password gate is started, and nothing happens after the end
C12_MismatchEndsSession ==
    [][/\ pc # "exit"
       /\ (/\ pc = "compare"
           /\ pc' # "compare"
           /\ words(completed_input) # words(selection.phrase)) =>
              /\ pc' = "exit"
              /\ hooks' = hooks
              /\ hooks[Len(hooks)] = HookCall("on_start", idx, FALSE)
              /\ entries' = 0
              /\ ~winner_opened'
       /\ exit_cause' = "typed_wrong" => pc = "compare"]_vars

\* the session has ended on a mismatch in the first of two challenges
C12_Witness ==
    /\ pc = "exit"
    /\ exit_cause = "typed_wrong"
    /\ Len(challenges) = 2
    /\ idx = 1
    /\ hooks = << HookCall("on_start", 1, FALSE) >>

\* C13: the two failures of timed input differ in the exit status: the
\* deadline kills the process with a non-zero status, a wrong answer ends it
\* with status 0
C13_DeadlineAndWrongAnswerDiffer ==
    /\ exit_cause = "time_up" => (pc = "exit" /\ exit_status # 0)
    /\ exit_cause = "typed_wrong" => (pc = "exit" /\ exit_status = 0)
    /\ timer = "fired" => exit_cause = "time_up"

\* the deadline has passed before the player typed anything
C13_Witness ==
    /\ pc = "exit"
    /\ exit_cause = "time_up"
    /\ timer = "fired"
    /\ completed_input = <<>>

\* the tokens of s: its maximal runs of word characters, in their order
Tokens(s) ==
    LET IsWordChar(i) == s[i] \in WordChars
        starts == {i \in DOMAIN s : IsWordChar(i) /\ (i = 1 \/ ~IsWordChar(i - 1))}
        End(i) == CHOOSE j \in i..Len(s) :
                      /\ \A k \in i..j : IsWordChar(k)
                      /\ j = Len(s) \/ ~IsWordChar(j + 1)
    IN  [k \in 1..Cardinality(starts) |-> SubSeq(s, Kth(starts, k), End(Kth(starts, k)))]

\* C14: the typing challenge passes if and only if the typed input and the
\* phrase, each in small letters and cut into its non-empty tokens at the runs
\* of non-word characters, give the same sequence of tokens; is_completed
\* then reports what on_start found
C14_PassIffSameTokens ==
    [][/\ (pc = "compare" /\ pc' \in {"poll", "exit"} /\ ~interrupted') =>
              ((pc' = "poll" /\ passed')
                  <=> Tokens(lower(completed_input)) = Tokens(lower(selection.phrase)))
       /\ (pc' = "returned" /\ Kind = "ChallengeSpeedTyping") =>
              (bool(ret') <=> passed')
       /\ (pc \in {"poll", "returned"} /\ Kind = "ChallengeSpeedTyping") => passed]_vars

\* the phrase typed with other punctuation, spacing and letter case has passed
C14_Witness ==
    /\ passed
    /\ selection = PhraseBaby
    /\ completed_input = TypedPunctuated
    /\ pc = "returned"
    /\ bool(ret)

\* C15: ChallengeIntro.is_completed returns true if and only if a regular file
\* named munchies.txt is in the altar, and the call removes every other regular
\* file of the altar but desktop.ini
C15_IntroKeepsOnlyMunchies ==
    [][(pc = "poll" /\ Kind = "ChallengeIntro" /\ pc' = "returned") =>
          /\ bool(ret') <=> (altar[MUNCHIES].exists /\ is_file(altar[MUNCHIES]))
          /\ \A n \in DOMAIN altar \ {DESKTOP_INI, MUNCHIES} :
                (altar[n].exists /\ is_file(altar[n])) => ~altar'[n].exists]_vars

(***************************************************************************)
(* Properties of evaluate_rules.                                           *)
(***************************************************************************)
\* s begins with w when letter case is disregarded
BeginsWithIgnoringCase(w, s) ==
    /\ Len(w) <= Len(s)
    /\ \A i \in DOMAIN w : LowerChar(s[i]) = LowerChar(w[i])

\* C18: the reindeer rule and the Roman-numeral-start rule each pass if and
\* only if the content, letter case disregarded, begins with a member of the
\* rule's set: one of the nine reindeer names, one of the letters I V X L C D M
C18_PrefixRulesIgnoreCase ==
    evaluated.done =>
        \A content \in {rstrip(evaluated.text)} :
            /\ requirements[RULE_REINDEER].passed
                  <=> \E i \in DOMAIN REINDEER :
                          BeginsWithIgnoringCase(REINDEER[i], content)
            /\ requirements[RULE_ROMAN_START].passed
                  <=> \E c \in {"I", "V", "X", "L", "C", "D", "M"} :
                          BeginsWithIgnoringCase(<<c>>, content)

\* the sum of the decimal digits of s: each digit's value times the number
\* of places where it stands
DigitTotal(s) ==
    LET n(d) == Cardinality({i \in DOMAIN s : s[i] = DecimalDigits[d + 1]})
    IN  n(1) + 2 * n(2) + 3 * n(3) + 4 * n(4) + 5 * n(5) + 6 * n(6) + 7 * n(7)
          + 8 * n(8) + 9 * n(9)

\* C19: the digit-sum rule passes if and only if the decimal digits found
\* anywhere in the content add up to exactly 25, and the rule's evidence is
\* that sum: "9979" gives 34 and fails, "a7k9i9" gives 25 and passes
C19_DigitSumIsTwentyFive ==
    evaluated.done =>
        \A content \in {rstrip(evaluated.text)} :
            /\ requirements[RULE_DIGIT_SUM].passed <=> DigitTotal(content) = 25
            /\ matches[RULE_DIGIT_SUM] = DigitTotal(content)
            /\ content = <<"9", "9", "7", "9">> =>
                  (matches[RULE_DIGIT_SUM] = 34 /\ ~requirements[RULE_DIGIT_SUM].passed)
            /\ content = <<"a", "7", "k", "9", "i", "9">> =>
                  (matches[RULE_DIGIT_SUM] = 25 /\ requirements[RULE_DIGIT_SUM].passed)

\* "a7k9i9" has been evaluated: the sum reported is 25 and the rule passed
C19_Witness ==
    /\ evaluated.done
    /\ evaluated.text = <<"a", "7", "k", "9", "i", "9">>
    /\ matches[RULE_DIGIT_SUM] = 25
    /\ requirements[RULE_DIGIT_SUM].passed

\* a is b read from its end to its start
IsReverseOf(a, b) ==
    /\ Len(a) = Len(b)
    /\ \A i \in DOMAIN a : a[i] = b[Len(b) + 1 - i]

Offenders(s) ==
    LET places(c) == {i \in DOMAIN s : s[i] = c}
        repeated  == {c \in Range(s) : Cardinality(places(c)) > 1}
        seconds   == {Kth(places(c), 2) : c \in repeated}
    IN  [k \in 1..Cardinality(seconds) |-> s[Kth(seconds, k)]]

\* C21: the no-repeat rule passes if and only if no character stands more than
\* once in the content in small letters; its evidence lists each repeated
\* character once, in the order in which the first repetitions are met:
\* "abcabc" fails with a, b, c and "abcdefg" passes with none
C21_NoRepeatsAndOffenders ==
    evaluated.done =>
        \A low \in {lower(rstrip(evaluated.text))} :
            /\ requirements[RULE_NO_REPEATS].passed
                  <=> \A i, j \in DOMAIN low : low[i] = low[j] => i = j
            /\ matches[RULE_NO_REPEATS] = Offenders(low)
            /\ low = <<"a", "b", "c", "a", "b", "c">> =>
                  /\ ~requirements[RULE_NO_REPEATS].passed
                  /\ matches[RULE_NO_REPEATS] = <<"a", "b", "c">>
            /\ low = <<"a", "b", "c", "d", "e", "f", "g">> =>
                  /\ requirements[RULE_NO_REPEATS].passed
                  /\ matches[RULE_NO_REPEATS] = <<>>

\* "abba" has been evaluated: the rule failed and b, whose repetition is met
\* first, is listed before a
C21_Witness ==
    /\ evaluated.done
    /\ evaluated.text = <<"a", "b", "b", "a">>
    /\ ~requirements[RULE_NO_REPEATS].passed
    /\ matches[RULE_NO_REPEATS] = <<"b", "a">>

(***************************************************************************)
(* Properties of timedinput's deadline.                                    *)
(***************************************************************************)
\* C22: the deadline timer ends the process only while input() has not
\* returned; once input() has returned the timer never ends the process
C22_TimerOnlyBeforeInputReturns ==
    [][(timer = "armed" /\ timer' = "fired") => pc = "input"]_vars

(***************************************************************************)
(* Properties of the password game's waits, visibility and payload.        *)
(***************************************************************************)
\* C23: the password game evaluates the rules against a file only after the
\* current is_completed call has waited on that file and seen its
\* modification time change; a file that was not seen to change is not
\* evaluated
C23_EvaluatesOnlyAfterChange ==
    [][(/\ pc = "in_call"
        /\ ppc = "eval"
        /\ ppc' # "eval"
        /\ altar[p].exists
        /\ altar[p].readable) =>
           (~skip_await /\ altar[p].mtime # mod_time)]_vars

\* C25: a rule that has been made visible stays visible: no step of the
\* session hides it, neither the rest of the evaluation that showed it nor a
\* later evaluation of a candidate that fails rules before it
C25_VisibilityIsMonotonic ==
    [][pc' # "exit" =>
          \A i \in Rules : requirements[i].shown => requirements'[i].shown]_vars

\* a candidate has been evaluated that fails a rule standing before a rule
\* an earlier candidate had made visible
C25_Witness ==
    /\ evaluated.done
    /\ pc = "returned"
    /\ ~bool(ret)
    /\ \E i \in 2..NUM_RULES :
          /\ requirements[i].shown
          /\ \E j \in 1..(i - 2) : ~requirements[j].passed

\* C26: when the password game succeeds, the payload it stores is the content
\* the rules were evaluated against in that call, so the stored secret meets
\* all twelve rules even if the file is rewritten between the evaluation and
\* the capture
C26_PayloadIsEvaluatedContent ==
    (pc = "returned" /\ bool(ret) /\ Kind = "ChallengePasswordGame" /\ evaluated.done) =>
        /\ successful_password = rstrip(evaluated.text)
        /\ \A fresh \in {FreshEvaluation(evaluated.name, successful_password)} :
              PassedRules(fresh.requirements) = Rules

(***************************************************************************)
(* Properties of the math challenge and of desktop.ini.                    *)
(***************************************************************************)
\* the number a string of decimal digits writes
RECURSIVE DecimalValue(_)
DecimalValue(s) ==
    IF s = <<>> THEN 0
    ELSE 10 * DecimalValue(SubSeq(s, 1, Len(s) - 1)) + IntOfChar(s[Len(s)])

\* C28: for every triple (a, b, c) the math challenge can draw, with a in
\* 0..3000, b in 0..1000 and c in 0..1000, the construction succeeds and
\* correct_answer is the decimal string of a * b / c rounded down
C28_MathAnswerDefined ==
    /\ exit_cause # "ZeroDivisionError"
    /\ pc \notin {"construct", "exit"} =>
          /\ math.correct_answer # <<>>
          /\ \A i \in DOMAIN math.correct_answer :
                math.correct_answer[i] \in Range(DecimalDigits)
          /\ Len(math.correct_answer) > 1 => math.correct_answer[1] # "0"
          /\ \A v \in {DecimalValue(math.correct_answer)} :
                /\ v * math.c <= math.a * math.b
                /\ math.a * math.b < (v + 1) * math.c

\* C24: desktop.ini is ignored by every challenge and by the altar purge: no
\* is_completed call and no _clear_altar_contents call removes or changes it,
\* none takes it for a candidate, and a challenge completes only with a
\* regular file other than desktop.ini in the altar
C24_DesktopIniIsIgnored ==
    [][/\ altar'[DESKTOP_INI] = altar[DESKTOP_INI]
       /\ p' # DESKTOP_INI
       /\ evaluated'.name # DESKTOP_INI
       /\ (pc # "returned" /\ pc' = "returned" /\ bool(ret')) =>
             \E n \in DOMAIN altar \ {DESKTOP_INI} : is_file(altar'[n])]_vars

\* the challenge has completed on the file the altar held from the start,
\* the purge has run, and desktop.ini alone is left
C24_Witness ==
    /\ pc = "gate"
    /\ writes = 0
    /\ iterdir = {DESKTOP_INI}
    /\ is_file(altar[DESKTOP_INI])

(***************************************************************************)
(* Properties of the reindeer challenge under continued polling.           *)
(***************************************************************************)
\* C27: with an image in the altar for which the classifier answers yes, the
\* reindeer challenge completes in the end under continued polling, whatever
\* other files stand beside the image
C27_AcceptedImageCompletes ==
    <>(\E n \in DOMAIN hooks : hooks[n] = HookCall("on_complete", 1, FALSE))

=============================================================================
